---- MODULE Spec2Model ----
(***************************************************************************)
(* A model of pptx-templatex: the key-path resolver                        *)
(* (PlaceholderReplacer.get_nested_value), the text substitutor            *)
(* (PlaceholderReplacer.replace_text), the slide copy                      *)
(* (SlideCopier.copy_slide), the two slide passes of the engine            *)
(* (_normalize_fonts_in_slide, _replace_placeholders_in_slide), the slide  *)
(* pipeline (TemplateEngine.__init__, TemplateEngine.process) and the      *)
(* command line entry point (cli.main).                                    *)
(*                                                                         *)
(* A Python str is a sequence of one-character strings.  A Python value is *)
(* a record [tag, v]: tag names the Python type and v holds the payload.   *)
(* A dict is a sequence of <<key, value>> pairs in insertion order.        *)
(***************************************************************************)
EXTENDS Integers, Sequences, FiniteSets, TLC

VARIABLES
    data,       \* the replacements tree handed to both functions
    key_path,   \* get_nested_value: the key_path argument
    pc,         \* get_nested_value: "start", "loop", "done" ("idle": not called)
    keys,       \* get_nested_value: normalized_path.split('.')
    ki,         \* get_nested_value: position of the for loop in keys (1-based)
    current,    \* get_nested_value: the value reached so far
    result,     \* get_nested_value: nothing yet, the returned value, or the raised error
    text,       \* replace_text: the text argument
    rpc,        \* replace_text: "start", "done" ("idle": not called)
    calls,      \* replace_text: number of calls made on this text chain
    rresult,    \* replace_text: nothing yet, the returned str, or the raised error
    template_file, \* the presentation stored at template_path
    template_prs,  \* TemplateEngine: self.template_prs (<<>> before __init__ has loaded it)
    init_result,   \* TemplateEngine.__init__: nothing yet, returned, or the raised exception
    frame,         \* process: one record of locals per call (config, idx, output_prs, ...)
    output_file,   \* the presentation each call has saved at its output_path
    main_pc,       \* cli.main: "start", "engine", "process", "done" ("idle": not called)
    returncode,    \* cli.main: the value returned (-1: nothing yet)
    stderr,        \* cli.main: the lines printed on sys.stderr
    cur_slide,     \* one slide the two slide passes of the engine are called on
    slide_calls    \* the calls made on cur_slide so far, one SlideCall record each

resolverVars == <<key_path, pc, keys, ki, current, result>>
replacerVars == <<text, rpc, calls, rresult>>
engineVars == <<template_file, template_prs, init_result, frame, output_file>>
cliVars == <<main_pc, returncode, stderr>>
slideVars == <<cur_slide, slide_calls>>

vars == <<data, key_path, pc, keys, ki, current, result, text, rpc, calls, rresult,
          template_file, template_prs, init_result, frame, output_file,
          main_pc, returncode, stderr, cur_slide, slide_calls>>

----------------------------------------------------------------------------
(* Bounds of the model *)

\* a key path is the concatenation of at most MaxPieces path pieces
MaxPieces == 3
\* a text is the concatenation of at most MaxTextPieces text pieces
MaxTextPieces == 3
\* replace_text is applied at most MaxCalls times in a row to its own output
MaxCalls == 2

----------------------------------------------------------------------------
(* Python str helpers *)

Digits == <<"0", "1", "2", "3", "4", "5", "6", "7", "8", "9">>

\* str.isdigit / the regex class \d, on the ASCII alphabet of the model
IsDigit(c) == \E i \in 1..10 : Digits[i] = c

DigitVal(c) == (CHOOSE i \in 1..10 : Digits[i] = c) - 1

\* the characters str.strip() removes, of those the model writes ("VT" is
\* the vertical tab \x0b)
Whitespace == {" ", "\t", "\n", "\r", "\f", "VT"}

RECURSIVE LStrip(_)
LStrip(s) ==
    IF s # <<>> /\ Head(s) \in Whitespace THEN LStrip(Tail(s)) ELSE s

RECURSIVE RStrip(_)
RStrip(s) ==
    IF s # <<>> /\ s[Len(s)] \in Whitespace
    THEN RStrip(SubSeq(s, 1, Len(s) - 1))
    ELSE s

\* only the whitespace in front is removed
Strip_LeftOnly(s) == LStrip(s)

\* str.strip()
Strip(s) == RStrip(LStrip(s))

\* str.split(sep) for a one-character separator: empty tokens are kept
RECURSIVE SplitFrom(_, _, _)
SplitFrom(s, sep, acc) ==
    IF s = <<>> THEN <<acc>>
    ELSE IF Head(s) = sep THEN <<acc>> \o SplitFrom(Tail(s), sep, <<>>)
    ELSE SplitFrom(Tail(s), sep, Append(acc, Head(s)))

Split(s, sep) == SplitFrom(s, sep, <<>>)

\* str(int): the decimal digits, a leading '-' for a negative number
RECURSIVE IntToStr(_)
IntToStr(n) ==
    IF n < 0 THEN <<"-">> \o IntToStr(-n)
    ELSE IF n < 10 THEN <<Digits[n + 1]>>
    ELSE IntToStr(n \div 10) \o <<Digits[(n % 10) + 1]>>

RECURSIVE DigitsToInt(_, _)
DigitsToInt(s, acc) ==
    IF s = <<>> THEN acc
    ELSE IF Head(s) = "_" THEN DigitsToInt(Tail(s), acc)
    ELSE DigitsToInt(Tail(s), 10 * acc + DigitVal(Head(s)))

\* int(s): surrounding whitespace is ignored, one sign is allowed, then digits
\* with single underscores between them; anything else is a ValueError
PyInt(s) ==
    LET t == Strip(s)
        signed == t # <<>> /\ Head(t) \in {"+", "-"}
        body == IF signed THEN Tail(t) ELSE t
        wellFormed ==
            /\ body # <<>>
            /\ \A i \in 1..Len(body) : IsDigit(body[i]) \/ body[i] = "_"
            /\ IsDigit(body[1]) /\ IsDigit(body[Len(body)])
            /\ \A i \in 1..(Len(body) - 1) : ~(body[i] = "_" /\ body[i + 1] = "_")
        magnitude == DigitsToInt(body, 0)
    IN  IF ~wellFormed THEN [ok |-> FALSE, n |-> 0]
        ELSE [ok |-> TRUE,
              n |-> IF signed /\ Head(t) = "-" THEN -magnitude ELSE magnitude]

----------------------------------------------------------------------------
(* Python values *)

VStr(s) == [tag |-> "str", v |-> s]
VInt(n) == [tag |-> "int", v |-> n]
\* a float with one fractional digit, held as its number of tenths (95.5 is 955)
VFloat(tenths) == [tag |-> "float", v |-> tenths]
VBool(b) == [tag |-> "bool", v |-> b]
VNone == [tag |-> "NoneType", v |-> 0]
VList(items) == [tag |-> "list", v |-> items]
VTuple(items) == [tag |-> "tuple", v |-> items]
VDict(pairs) == [tag |-> "dict", v |-> pairs]

\* key in d
DictHas(d, k) == \E i \in 1..Len(d.v) : d.v[i][1] = k

\* d[key]
DictGet(d, k) == d.v[CHOOSE i \in 1..Len(d.v) : d.v[i][1] = k][2]

----------------------------------------------------------------------------
(* Errors and results *)

\* A PlaceholderError of get_nested_value.  kind names the message template,
\* at is the quoted key or bracket text of the message, index the number of
\* an "Index N out of range" message, path the key_path every message ends with.
PlaceholderError(kind, at, index, path) ==
    [kind |-> kind, at |-> at, index |-> index, path |-> path]

NoError == PlaceholderError("", <<>>, 0, <<>>)
NoValue == [tag |-> "", v |-> 0]

Pending == [status |-> "none", val |-> NoValue, err |-> NoError]
Returned(v) == [status |-> "returned", val |-> v, err |-> NoError]
Raised(e) == [status |-> "raised", val |-> NoValue, err |-> e]

----------------------------------------------------------------------------
(* get_nested_value *)

\* the run [^\d\]]+ of the invalid-index pattern: characters from s[i] on that
\* are neither a digit nor ']'
RECURSIVE NonDigitRun(_, _)
NonDigitRun(s, i) ==
    IF i <= Len(s) /\ ~IsDigit(s[i]) /\ s[i] # "]"
    THEN 1 + NonDigitRun(s, i + 1)
    ELSE 0

\* the run \d+ of the normalising pattern
RECURSIVE DigitRun(_, _)
DigitRun(s, i) ==
    IF i <= Len(s) /\ IsDigit(s[i]) THEN 1 + DigitRun(s, i + 1) ELSE 0

\* r'\[([^\d\]]+)\]' matches at position i of s
InvalidIndexAt(s, i) ==
    /\ s[i] = "["
    /\ NonDigitRun(s, i + 1) >= 1
    /\ i + 1 + NonDigitRun(s, i + 1) <= Len(s)
    /\ s[i + 1 + NonDigitRun(s, i + 1)] = "]"

\* re.findall(r'\[([^\d\]]+)\]', key_path) is not empty
HasInvalidIndex(s) == \E i \in 1..Len(s) : InvalidIndexAt(s, i)

\* invalid_indices[0]: the group of the leftmost match
FirstInvalidIndex(s) ==
    LET i == CHOOSE j \in 1..Len(s) :
                 InvalidIndexAt(s, j) /\ \A k \in 1..(j - 1) : ~InvalidIndexAt(s, k)
    IN  SubSeq(s, i + 1, i + NonDigitRun(s, i + 1))

\* re.sub(r'\[(\d+)\]', r'.[\1]', key_path), scanning from position i
RECURSIVE NormalizeFrom(_, _)
NormalizeFrom(s, i) ==
    IF i > Len(s) THEN <<>>
    ELSE LET n == DigitRun(s, i + 1) IN
         IF s[i] = "[" /\ n >= 1 /\ i + 1 + n <= Len(s) /\ s[i + 1 + n] = "]"
         THEN <<".">> \o SubSeq(s, i, i + 1 + n) \o NormalizeFrom(s, i + 2 + n)
         ELSE <<s[i]>> \o NormalizeFrom(s, i + 1)

\* a variant of normalized_path that leaves [N] as it stands
normalized_path_Unchanged(path) == path

normalized_path(path) == NormalizeFrom(path, 1)

\* a variant of LoopBody that counts sequence positions from 1
LoopBody_OneBased(cur, rawkey, path) ==
    LET key == Strip(rawkey) IN
    IF key = <<>> THEN Returned(cur)
    ELSE IF key[1] = "[" /\ key[Len(key)] = "]"
    THEN LET index == PyInt(SubSeq(key, 2, Len(key) - 1)) IN
         IF ~index.ok
         THEN Raised(PlaceholderError("InvalidArrayIndex", key, 0, path))
         ELSE IF cur.tag \notin {"list", "tuple"}
         THEN Raised(PlaceholderError("CannotIndexNonList", key, 0, path))
         ELSE IF index.n < 1 \/ index.n > Len(cur.v)
         THEN Raised(PlaceholderError("IndexOutOfRange", <<>>, index.n, path))
         ELSE Returned(cur.v[index.n])
    ELSE IF cur.tag # "dict"
    THEN Raised(PlaceholderError("CannotAccessKeyOnNonDict", key, 0, path))
    ELSE IF ~DictHas(cur, key)
    THEN Raised(PlaceholderError("KeyNotFound", key, 0, path))
    ELSE Returned(DictGet(cur, key))

\* a variant of LoopBody without the "index < 0" test: a negative index counts
\* from the end of the sequence, as current[index] does in Python
LoopBody_NegativeWraps(cur, rawkey, path) ==
    LET key == Strip(rawkey) IN
    IF key = <<>> THEN Returned(cur)
    ELSE IF key[1] = "[" /\ key[Len(key)] = "]"
    THEN LET index == PyInt(SubSeq(key, 2, Len(key) - 1)) IN
         IF ~index.ok
         THEN Raised(PlaceholderError("InvalidArrayIndex", key, 0, path))
         ELSE IF cur.tag \notin {"list", "tuple"}
         THEN Raised(PlaceholderError("CannotIndexNonList", key, 0, path))
         ELSE IF index.n >= Len(cur.v) \/ -index.n > Len(cur.v)
         THEN Raised(PlaceholderError("IndexOutOfRange", <<>>, index.n, path))
         ELSE IF index.n < 0 THEN Returned(cur.v[Len(cur.v) + index.n + 1])
         ELSE Returned(cur.v[index.n + 1])
    ELSE IF cur.tag # "dict"
    THEN Raised(PlaceholderError("CannotAccessKeyOnNonDict", key, 0, path))
    ELSE IF ~DictHas(cur, key)
    THEN Raised(PlaceholderError("KeyNotFound", key, 0, path))
    ELSE Returned(DictGet(cur, key))

\* a variant of LoopBody that tests the bounds before the type, with len()
\* defined for a str too
LoopBody_BoundsFirst(cur, rawkey, path) ==
    LET key == Strip(rawkey) IN
    IF key = <<>> THEN Returned(cur)
    ELSE IF key[1] = "[" /\ key[Len(key)] = "]"
    THEN LET index == PyInt(SubSeq(key, 2, Len(key) - 1)) IN
         IF ~index.ok
         THEN Raised(PlaceholderError("InvalidArrayIndex", key, 0, path))
         ELSE IF /\ cur.tag \in {"list", "tuple", "str"}
                 /\ (index.n < 0 \/ index.n >= Len(cur.v))
         THEN Raised(PlaceholderError("IndexOutOfRange", <<>>, index.n, path))
         ELSE IF cur.tag \notin {"list", "tuple"}
         THEN Raised(PlaceholderError("CannotIndexNonList", key, 0, path))
         ELSE Returned(cur.v[index.n + 1])
    ELSE IF cur.tag # "dict"
    THEN Raised(PlaceholderError("CannotAccessKeyOnNonDict", key, 0, path))
    ELSE IF ~DictHas(cur, key)
    THEN Raised(PlaceholderError("KeyNotFound", key, 0, path))
    ELSE Returned(DictGet(cur, key))

\* One iteration of "for key in keys" on the value cur: the value to go on
\* with (status "returned"), or the error raised (status "raised").
LoopBody(cur, rawkey, path) ==
    LET key == Strip(rawkey) IN
    IF key = <<>> THEN Returned(cur)
    ELSE IF key[1] = "[" /\ key[Len(key)] = "]"
    THEN LET index == PyInt(SubSeq(key, 2, Len(key) - 1)) IN
         IF ~index.ok
         THEN Raised(PlaceholderError("InvalidArrayIndex", key, 0, path))
         ELSE IF cur.tag \notin {"list", "tuple"}
         THEN Raised(PlaceholderError("CannotIndexNonList", key, 0, path))
         ELSE IF index.n < 0 \/ index.n >= Len(cur.v)
         THEN Raised(PlaceholderError("IndexOutOfRange", <<>>, index.n, path))
         ELSE Returned(cur.v[index.n + 1])
    ELSE IF cur.tag # "dict"
    THEN Raised(PlaceholderError("CannotAccessKeyOnNonDict", key, 0, path))
    ELSE IF ~DictHas(cur, key)
    THEN Raised(PlaceholderError("KeyNotFound", key, 0, path))
    ELSE Returned(DictGet(cur, key))

\* the for loop from keys[i] on
RECURSIVE WalkKeys(_, _, _, _)
WalkKeys(cur, ks, i, path) ==
    IF i > Len(ks) THEN Returned(cur)
    ELSE LET r == LoopBody(cur, ks[i], path) IN
         IF r.status = "raised" THEN r ELSE WalkKeys(r.val, ks, i + 1, path)

\* the whole call, as replace_match makes it
get_nested_value(d, path) ==
    IF HasInvalidIndex(path)
    THEN Raised(PlaceholderError("InvalidArrayIndex",
                                 <<"[">> \o FirstInvalidIndex(path) \o <<"]">>, 0, path))
    ELSE WalkKeys(d, Split(normalized_path(path), "."), 1, path)

----------------------------------------------------------------------------
(* replace_text *)

\* float.__repr__ of a float with one fractional digit
RECURSIVE FloatToStr(_)
FloatToStr(tenths) ==
    IF tenths < 0 THEN <<"-">> \o FloatToStr(-tenths)
    ELSE IntToStr(tenths \div 10) \o <<".">> \o IntToStr(tenths % 10)

RECURSIVE Repr(_)
RECURSIVE ReprItems(_, _)
RECURSIVE ReprPairs(_, _)

\* repr(v); the strings of the model hold no quote, backslash or control
\* character, so repr(str) is the text between single quotes
Repr(v) ==
    CASE v.tag = "str" -> <<"'">> \o v.v \o <<"'">>
      [] v.tag = "int" -> IntToStr(v.v)
      [] v.tag = "float" -> FloatToStr(v.v)
      [] v.tag = "bool" -> IF v.v THEN <<"T", "r", "u", "e">>
                                  ELSE <<"F", "a", "l", "s", "e">>
      [] v.tag = "NoneType" -> <<"N", "o", "n", "e">>
      [] v.tag = "list" -> <<"[">> \o ReprItems(v.v, 1) \o <<"]">>
      [] v.tag = "tuple" ->
            <<"(">> \o ReprItems(v.v, 1)
                    \o (IF Len(v.v) = 1 THEN <<",">> ELSE <<>>) \o <<")">>
      [] v.tag = "dict" -> <<"{">> \o ReprPairs(v.v, 1) \o <<"}">>

\* ', '.join(repr(x) for x in items[i:])
ReprItems(items, i) ==
    IF i > Len(items) THEN <<>>
    ELSE Repr(items[i])
         \o (IF i < Len(items) THEN <<",", " ">> ELSE <<>>)
         \o ReprItems(items, i + 1)

\* ', '.join(repr(k) + ': ' + repr(x) for k, x in pairs[i:])
ReprPairs(pairs, i) ==
    IF i > Len(pairs) THEN <<>>
    ELSE <<"'">> \o pairs[i][1] \o <<"'", ":", " ">> \o Repr(pairs[i][2])
         \o (IF i < Len(pairs) THEN <<",", " ">> ELSE <<>>)
         \o ReprPairs(pairs, i + 1)

\* a variant of Str that quotes a str as repr() does
Str_Repr(v) == Repr(v)

\* str(value), line 103
Str(v) == IF v.tag = "str" THEN v.v ELSE Repr(v)

\* The PlaceholderError replace_match raises: the message names a placeholder
\* and ends with the message of the error it wraps.
FailedToReplace(placeholder, cause) == [placeholder |-> placeholder, cause |-> cause]

NoFailure == FailedToReplace(<<>>, NoError)

TextPending == [status |-> "none", val |-> <<>>, err |-> NoFailure]
TextReturned(t) == [status |-> "returned", val |-> t, err |-> NoFailure]
TextRaised(f) == [status |-> "raised", val |-> <<>>, err |-> f]

\* the length of the run [^}]+ of PLACEHOLDER_PATTERN that starts at t[i]:
\* greedy, so it ends before the first '}' or at the end of the text
NonBraceRun(t, i) ==
    IF \E k \in i..Len(t) : t[k] = "}"
    THEN (CHOOSE k \in i..Len(t) :
              t[k] = "}" /\ \A m \in i..(k - 1) : t[m] # "}") - i
    ELSE Len(t) + 1 - i

\* a variant of PlaceholderAt for the pattern \{\{([^}]*)\}\}
PlaceholderAt_EmptyAllowed(t, i) ==
    /\ i + 3 <= Len(t)
    /\ t[i] = "{" /\ t[i + 1] = "{"
    /\ LET n == NonBraceRun(t, i + 2) IN
       /\ i + 3 + n <= Len(t)
       /\ t[i + 2 + n] = "}" /\ t[i + 3 + n] = "}"

\* PLACEHOLDER_PATTERN matches at position i of t
PlaceholderAt(t, i) ==
    /\ i + 4 <= Len(t)
    /\ t[i] = "{" /\ t[i + 1] = "{"
    /\ LET n == NonBraceRun(t, i + 2) IN
       /\ n >= 1
       /\ i + 3 + n <= Len(t)
       /\ t[i + 2 + n] = "}" /\ t[i + 3 + n] = "}"

\* the position of the leftmost match at or after position i, 0 if there is none
NextMatch(t, i) ==
    IF \E j \in i..Len(t) : PlaceholderAt(t, j)
    THEN CHOOSE j \in i..Len(t) :
             PlaceholderAt(t, j) /\ \A k \in i..(j - 1) : ~PlaceholderAt(t, k)
    ELSE 0

\* a variant of replace_match that leaves a failing placeholder as it stands
replace_match_KeepsFailing(group0, group1, d) ==
    LET path == Strip(group1)
        value == get_nested_value(d, path)
    IN  IF value.status = "returned" THEN TextReturned(Str(value.val))
        ELSE TextReturned(group0)

\* a variant of replace_match whose message quotes the matched text
replace_match_NamesMatch(group0, group1, d) ==
    LET path == Strip(group1)
        value == get_nested_value(d, path)
    IN  IF value.status = "returned" THEN TextReturned(Str(value.val))
        ELSE TextRaised(FailedToReplace(group0, value.err))

\* replace_match, lines 99-107: group0 is the matched text, group1 the text
\* between the braces
replace_match(group0, group1, d) ==
    LET path == Strip(group1)
        value == get_nested_value(d, path)
    IN  IF value.status = "returned" THEN TextReturned(Str(value.val))
        ELSE TextRaised(FailedToReplace(<<"{", "{">> \o path \o <<"}", "}">>,
                                        value.err))

RECURSIVE ReSub(_, _, _)

\* a variant of ReSub that replaces the first match only (count=1)
ReSub_FirstOnly(t, i, d) ==
    LET j == NextMatch(t, i) IN
    IF j = 0 THEN TextReturned(SubSeq(t, i, Len(t)))
    ELSE LET n == NonBraceRun(t, j + 2)
             m == replace_match(SubSeq(t, j, j + 3 + n), SubSeq(t, j + 2, j + 1 + n), d)
         IN  IF m.status = "raised" THEN m
             ELSE TextReturned(SubSeq(t, i, j - 1) \o m.val
                               \o SubSeq(t, j + 4 + n, Len(t)))

\* PLACEHOLDER_PATTERN.sub(replace_match, text) from position i on: the text
\* up to the leftmost match is copied, the match is replaced by what
\* replace_match returns, and the scan goes on behind the match; the first
\* replace_match that raises ends the call
ReSub(t, i, d) ==
    LET j == NextMatch(t, i) IN
    IF j = 0 THEN TextReturned(SubSeq(t, i, Len(t)))
    ELSE LET n == NonBraceRun(t, j + 2)
             m == replace_match(SubSeq(t, j, j + 3 + n), SubSeq(t, j + 2, j + 1 + n), d)
         IN  IF m.status = "raised" THEN m
             ELSE LET rest == ReSub(t, j + 4 + n, d)
                  IN  IF rest.status = "raised" THEN rest
                      ELSE TextReturned(SubSeq(t, i, j - 1) \o m.val \o rest.val)

\* a variant that scans the text it built once more
replace_text_TwoPasses(t, d) ==
    LET once == ReSub(t, 1, d) IN
    IF once.status = "raised" THEN once ELSE ReSub(once.val, 1, d)

\* line 109
replace_text(t, d) == ReSub(t, 1, d)

----------------------------------------------------------------------------
(* Inputs *)

\* {"a": ["x", {"b": 30}], "b": "yz", "n": None, "f": 95.5, "s": "{{b}}"}
Tree1 ==
    VDict(<< << <<"a">>, VList(<< VStr(<<"x">>), VDict(<< << <<"b">>, VInt(30) >> >>) >>) >>,
             << <<"b">>, VStr(<<"y", "z">>) >>,
             << <<"n">>, VNone >>,
             << <<"f">>, VFloat(955) >>,
             << <<"s">>, VStr(<<"{", "{", "b", "}", "}">>) >> >>)

\* {"a": ("p", "q"), "b": {"a": [], "b": -4}, "n": True, "f": False, "s": "{{}}",
\*  "u": "{{zz}}"}
Tree2 ==
    VDict(<< << <<"a">>, VTuple(<< VStr(<<"p">>), VStr(<<"q">>) >>) >>,
             << <<"b">>, VDict(<< << <<"a">>, VList(<< >>) >>,
                                  << <<"b">>, VInt(-4) >> >>) >>,
             << <<"n">>, VBool(TRUE) >>,
             << <<"f">>, VBool(FALSE) >>,
             << <<"s">>, VStr(<<"{", "{", "}", "}">>) >>,
             << <<"u">>, VStr(<<"{", "{", "z", "z", "}", "}">>) >> >>)

\* {}
Tree3 == VDict(<< >>)

Trees == {Tree1, Tree2, Tree3}

\* the pieces key paths are put together from
PathPieces ==
    { <<"a">>, <<"b">>, <<".", "b">>, <<".">>, <<" ">>,
      <<"[", "0", "]">>, <<"[", "1", "]">>, <<"[", "2", "]">>,
      <<".", "[", "1", "]">>, <<".", "[", "-", "1", "]">>,
      <<"[", "x", "]">>, <<"[", "1", "x", "]">>, <<"[", "1", ".", "5", "]">> }

RECURSIVE Concatenations(_, _)
Concatenations(pieces, n) ==
    IF n = 0 THEN {<<>>}
    ELSE LET shorter == Concatenations(pieces, n - 1)
         IN  shorter \cup {p \o q : p \in shorter, q \in pieces}

KeyPaths == Concatenations(PathPieces, MaxPieces)

\* the pieces texts are put together from
TextPieces ==
    { <<"x">>, <<" ">>, <<"{">>, <<"}">>,
      <<"{", "{", " ", "b", " ", "}", "}">>,
      <<"{", "{", "n", "}", "}">>,
      <<"{", "{", "f", "}", "}">>,
      <<"{", "{", "a", "[", "1", "]", ".", "b", "}", "}">>,
      <<"{", "{", " ", "s", "}", "}">>,
      <<"{", "{", "b", ".", "b", " ", "}", "}">> }

\* texts with braces that are no placeholder, or more braces than one, and
\* a text whose values on Tree2 hold braces themselves
BraceTexts ==
    { <<"{", "{", "}", "}">>,
      <<"{", "{", " ", "a", " ", "}", " ", "b", " ", "}", "}">>,
      <<"{", "{", "}", "}", "{", "{", "b", "}", "}">>,
      <<"{", "{", " ", "{", "{", "b", "}", "}", " ", "}", "}">>,
      <<"{", "{", "b", "}", "}", "}", "{", "{", "n", "}", "}">>,
      <<"{", "{", "u", "}", "}", "{", "{", " ", "s", "}", "}">> }

Texts == Concatenations(TextPieces, MaxTextPieces) \cup BraceTexts

----------------------------------------------------------------------------
(* Exceptions and call outcomes of the engine and of the command line *)

\* An exception of TemplateEngine.  type is the Python class; kind names the
\* message template of a TemplateError; index, src_page and count are the
\* {idx}, {src_page} and {len(self.template_prs.slides)} a message prints
\* (-1 and NoValue when it prints none); detail is the path the message ends
\* with, or <<"str(e)">> when it ends with the text of a caught exception.
EngineException(type, kind, index, src_page, count, detail) ==
    [type |-> type, kind |-> kind, index |-> index, src_page |-> src_page,
     count |-> count, detail |-> detail]

TemplateError(kind, index, src_page, count, detail) ==
    EngineException("TemplateError", kind, index, src_page, count, detail)

\* what python-pptx raises when Presentation(path) cannot open the file
PackageNotFoundError ==
    EngineException("PackageNotFoundError", "", -1, NoValue, -1, <<"template_path">>)

NoException == EngineException("", "", -1, NoValue, -1, <<>>)

NotCalled == [status |-> "none", exc |-> NoException]
Completed == [status |-> "returned", exc |-> NoException]
Failed(e) == [status |-> "raised", exc |-> e]

\* the engine and the command line before anything is called
EngineIdle ==
    /\ template_file = <<>>
    /\ template_prs = <<>>
    /\ init_result = NotCalled
    /\ frame = <<>>
    /\ output_file = <<>>

CliIdle ==
    /\ main_pc = "idle"
    /\ returncode = -1
    /\ stderr = <<>>

\* the slide passes are not called on their own
SlideIdle ==
    /\ cur_slide = <<>>
    /\ slide_calls = <<>>

----------------------------------------------------------------------------
(* get_nested_value, one call, statement by statement *)

InitResolve ==
    /\ data \in Trees
    /\ key_path \in KeyPaths
    /\ pc = "start"
    /\ keys = <<>>
    /\ ki = 1
    /\ current = NoValue
    /\ result = Pending
    /\ text = <<>>
    /\ rpc = "idle"
    /\ calls = 0
    /\ rresult = TextPending
    /\ EngineIdle
    /\ CliIdle
    /\ SlideIdle

\* lines 36-40: a bracket without any digit in it is rejected before the split
RaiseInvalidIndex ==
    /\ pc = "start"
    /\ HasInvalidIndex(key_path)
    /\ result' = Raised(PlaceholderError("InvalidArrayIndex",
                            <<"[">> \o FirstInvalidIndex(key_path) \o <<"]">>, 0, key_path))
    /\ pc' = "done"
    /\ UNCHANGED <<data, key_path, keys, ki, current, text, rpc, calls, rresult, engineVars, cliVars, slideVars>>

\* lines 42-46: normalise, split, start at the root
SplitKeys ==
    /\ pc = "start"
    /\ ~HasInvalidIndex(key_path)
    /\ keys' = Split(normalized_path(key_path), ".")
    /\ current' = data
    /\ ki' = 1
    /\ pc' = "loop"
    /\ UNCHANGED <<data, key_path, result, text, rpc, calls, rresult, engineVars, cliVars, slideVars>>

\* lines 48-80: one iteration of the for loop
ForKey ==
    /\ pc = "loop"
    /\ ki <= Len(keys)
    /\ LET r == LoopBody(current, keys[ki], key_path) IN
       IF r.status = "raised"
       THEN /\ result' = r
            /\ pc' = "done"
            /\ UNCHANGED <<current, ki>>
       ELSE /\ current' = r.val
            /\ ki' = ki + 1
            /\ UNCHANGED <<result, pc>>
    /\ UNCHANGED <<data, key_path, keys, text, rpc, calls, rresult, engineVars, cliVars, slideVars>>

\* line 82
ReturnCurrent ==
    /\ pc = "loop"
    /\ ki > Len(keys)
    /\ result' = Returned(current)
    /\ pc' = "done"
    /\ UNCHANGED <<data, key_path, keys, ki, current, text, rpc, calls, rresult, engineVars, cliVars, slideVars>>

NextResolve == RaiseInvalidIndex \/ SplitKeys \/ ForKey \/ ReturnCurrent

SpecResolve == InitResolve /\ [][NextResolve]_vars

\* the statement-by-statement run and the whole call agree
ResolveAgrees == pc = "done" => result = get_nested_value(data, key_path)

----------------------------------------------------------------------------
(* replace_text, called on a text and then on the text it returned *)

InitReplace ==
    /\ data \in Trees
    /\ text \in Texts
    /\ rpc = "start"
    /\ calls = 0
    /\ rresult = TextPending
    /\ key_path = <<>>
    /\ pc = "idle"
    /\ keys = <<>>
    /\ ki = 1
    /\ current = NoValue
    /\ result = Pending
    /\ EngineIdle
    /\ CliIdle
    /\ SlideIdle

\* lines 84-109: one call of replace_text(text, data)
ReplaceText ==
    /\ rpc = "start"
    /\ calls < MaxCalls
    /\ rresult' = replace_text(text, data)
    /\ calls' = calls + 1
    /\ rpc' = "done"
    /\ UNCHANGED <<data, text, key_path, pc, keys, ki, current, result, engineVars, cliVars, slideVars>>

\* the returned text is handed to replace_text again, with the same tree
ReplaceTextAgain ==
    /\ rpc = "done"
    /\ rresult.status = "returned"
    /\ calls < MaxCalls
    /\ text' = rresult.val
    /\ rresult' = replace_text(rresult.val, data)
    /\ calls' = calls + 1
    /\ UNCHANGED <<data, rpc, key_path, pc, keys, ki, current, result, engineVars, cliVars, slideVars>>

NextReplace == ReplaceText \/ ReplaceTextAgain

SpecReplace == InitReplace /\ [][NextReplace]_vars

----------------------------------------------------------------------------
(* Properties of get_nested_value *)

\* A key path as a list of segments, and the walk of a tree along it.
FieldSegment(name) == [kind |-> "field", name |-> name, index |-> 0]
IndexSegment(i) == [kind |-> "index", name |-> <<>>, index |-> i]

Segments ==
    {FieldSegment(n) : n \in {<<"a">>, <<"b">>}} \cup {IndexSegment(i) : i \in 0..2}

RECURSIVE SegmentLists(_)
SegmentLists(n) ==
    IF n = 0 THEN {<<>>}
    ELSE LET shorter == SegmentLists(n - 1)
         IN  shorter \cup {Append(l, sg) : l \in shorter, sg \in Segments}

\* the segment names an existing key of the mapping v, or an index inside the
\* sequence v
Names(v, sg) ==
    IF sg.kind = "field"
    THEN v.tag = "dict" /\ \E i \in 1..Len(v.v) : v.v[i][1] = sg.name
    ELSE v.tag \in {"list", "tuple"} /\ sg.index < Len(v.v)

Child(v, sg) ==
    IF sg.kind = "field"
    THEN (CHOOSE pair \in {v.v[i] : i \in 1..Len(v.v)} : pair[1] = sg.name)[2]
    ELSE v.v[sg.index + 1]

RECURSIVE Walkable(_, _)
Walkable(v, segs) ==
    segs = <<>> \/ (Names(v, Head(segs)) /\ Walkable(Child(v, Head(segs)), Tail(segs)))

RECURSIVE ManualWalk(_, _)
ManualWalk(v, segs) ==
    IF segs = <<>> THEN v ELSE ManualWalk(Child(v, Head(segs)), Tail(segs))

\* the key path of a segment list: a.b[0].c, or a.b.[0].c with dotted set
RECURSIVE Written(_, _, _)
Written(segs, dotted, first) ==
    IF segs = <<>> THEN <<>>
    ELSE LET sg == Head(segs)
             piece == IF sg.kind = "field"
                      THEN (IF first THEN <<>> ELSE <<".">>) \o sg.name
                      ELSE (IF dotted THEN <<".">> ELSE <<>>)
                           \o <<"[">> \o IntToStr(sg.index) \o <<"]">>
         IN  piece \o Written(Tail(segs), dotted, FALSE)

\* every segment list of at most MaxPieces segments with its two key paths
WrittenSegmentLists ==
    {<<Written(segs, dotted, TRUE), segs>> :
        segs \in SegmentLists(MaxPieces), dotted \in BOOLEAN}

WrittenPaths == {w[1] : w \in WrittenSegmentLists}

\* C1: when the key path is a list of segments that all name existing keys or
\* in-range indices of the tree, the call returns exactly the value the walk
\* along the segments reaches, type and payload unchanged.
C1_ValidPathReturnsLeaf ==
    (pc = "done" /\ key_path \in WrittenPaths) =>
        \A w \in WrittenSegmentLists :
            (key_path = w[1] /\ Walkable(data, w[2]))
                => result = Returned(ManualWalk(data, w[2]))

\* a[1].b on Tree1 has returned the int 30
C1_Witness ==
    /\ pc = "done"
    /\ data = Tree1
    /\ key_path = <<"a", "[", "1", "]", ".", "b">>
    /\ result = Returned(VInt(30))

\* the key path with a '.' put in front of every [N] it holds
RECURSIVE DotBracketForm(_)
DotBracketForm(s) ==
    IF s = <<>> THEN <<>>
    ELSE IF /\ Head(s) = "["
            /\ \E j \in 3..Len(s) :
                   /\ s[j] = "]"
                   /\ \A k \in 2..(j - 1) : s[k] \in {Digits[d] : d \in 1..10}
         THEN <<".", "[">> \o DotBracketForm(Tail(s))
         ELSE <<Head(s)>> \o DotBracketForm(Tail(s))

SameOutcome(r1, r2) ==
    /\ r1.status = r2.status
    /\ r1.val = r2.val
    /\ r1.err.kind = r2.err.kind
    /\ r1.err.at = r2.err.at
    /\ r1.err.index = r2.err.index

\* C2: the key path and its dot-bracket form have the same outcome: the same
\* value, or an error of the same kind about the same key or index.
C2_BracketEqualsDotBracket ==
    pc = "done" =>
        SameOutcome(result, get_nested_value(data, DotBracketForm(key_path)))

\* a[1].b and a.[1].b on Tree1
C2_Witness ==
    /\ pc = "done"
    /\ data = Tree1
    /\ key_path = <<"a", "[", "1", "]", ".", "b">>
    /\ DotBracketForm(key_path) = <<"a", ".", "[", "1", "]", ".", "b">>
    /\ result.status = "returned"

\* the contents of the brackets of s: [ ... ] with no bracket in between
BracketAt(s, i, j) ==
    /\ i < j /\ s[i] = "[" /\ s[j] = "]"
    /\ \A k \in (i + 1)..(j - 1) : s[k] \notin {"[", "]"}

NotAllDigits(s, i, j) ==
    j > i + 1 /\ \E k \in (i + 1)..(j - 1) : s[k] \notin {Digits[d] : d \in 1..10}

HasOffendingBracket(s) ==
    \E i, j \in 1..Len(s) : BracketAt(s, i, j) /\ NotAllDigits(s, i, j)

FirstOffendingBracket(s) ==
    LET ij == CHOOSE p \in (1..Len(s)) \X (1..Len(s)) :
                  /\ BracketAt(s, p[1], p[2]) /\ NotAllDigits(s, p[1], p[2])
                  /\ \A q \in (1..Len(s)) \X (1..Len(s)) :
                         (BracketAt(s, q[1], q[2]) /\ NotAllDigits(s, q[1], q[2]))
                             => p[1] <= q[1]
    IN  SubSeq(s, ij[1], ij[2])

\* C3 (as claimed): a key path holding a bracket whose contents are not all
\* digits ends in an invalid-array-index error naming the first such bracket,
\* raised before anything was looked up in the tree.
C3_NonDigitBracketRejected ==
    (pc = "done" /\ HasOffendingBracket(key_path)) =>
        /\ result.status = "raised"
        /\ result.err.kind = "InvalidArrayIndex"
        /\ result.err.at = FirstOffendingBracket(key_path)
        /\ current \in {NoValue, data}

\* the token is an index segment: [N], N what int() accepts
IsIndexSegment(rawkey) ==
    LET key == Strip(rawkey) IN
    /\ Len(key) >= 2 /\ key[1] = "[" /\ key[Len(key)] = "]"
    /\ PyInt(SubSeq(key, 2, Len(key) - 1)).ok

SegmentIndex(rawkey) ==
    LET key == Strip(rawkey) IN PyInt(SubSeq(key, 2, Len(key) - 1)).n

\* the token is a field segment: not empty and not of the form [ ... ]
IsFieldSegment(rawkey) ==
    LET key == Strip(rawkey) IN
    key # <<>> /\ ~(key[1] = "[" /\ key[Len(key)] = "]")

C5_FailsAtFirstMisfit ==
    [][ /\ (pc = "loop" /\ ki <= Len(keys)) =>
            LET key == Strip(keys[ki]) IN
            /\ (IsFieldSegment(keys[ki]) /\ current.tag # "dict") =>
                   result' = Raised(PlaceholderError("CannotAccessKeyOnNonDict",
                                                     key, 0, key_path))
            /\ (/\ IsFieldSegment(keys[ki]) /\ current.tag = "dict"
                /\ \A i \in 1..Len(current.v) : current.v[i][1] # key) =>
                   result' = Raised(PlaceholderError("KeyNotFound", key, 0, key_path))
            /\ (IsIndexSegment(keys[ki]) /\ current.tag \notin {"list", "tuple"}) =>
                   result' = Raised(PlaceholderError("CannotIndexNonList",
                                                     key, 0, key_path))
            /\ (result'.status = "raised") => (pc' = "done" /\ UNCHANGED <<current, ki>>)
            /\ (result'.status # "raised") => (pc' = "loop" /\ ki' = ki + 1)
        /\ pc = "done" => UNCHANGED vars ]_vars

\* b[2] on Tree1 ("yz" is a str of length 2) has raised cannot-index
C5_Witness ==
    /\ pc = "done"
    /\ result.err.kind = "CannotIndexNonList"
    /\ current.tag = "str"
    /\ ki <= Len(keys)
    /\ SegmentIndex(keys[ki]) >= Len(current.v)

----------------------------------------------------------------------------
(* Properties of replace_text *)

\* t[i..j] is a placeholder span: {{, at least one character and no '}' in
\* between, }}
IsSpan(t, i, j) ==
    /\ i + 4 <= j /\ j <= Len(t)
    /\ t[i] = "{" /\ t[i + 1] = "{" /\ t[j - 1] = "}" /\ t[j] = "}"
    /\ \A k \in (i + 2)..(j - 2) : t[k] # "}"

HasSpanFrom(t, p) == \E i \in p..Len(t), j \in p..Len(t) : IsSpan(t, i, j)

\* the leftmost span that starts at position p or later
SpanFrom(t, p) ==
    CHOOSE sp \in (p..Len(t)) \X (p..Len(t)) :
        /\ IsSpan(t, sp[1], sp[2])
        /\ \A i \in p..(sp[1] - 1), j \in p..Len(t) : ~IsSpan(t, i, j)

\* the key path of a span: the text between the braces, trimmed
SpanPath(t, sp) == Strip(SubSeq(t, sp[1] + 2, sp[2] - 2))

\* the spans of t from position p on, left to right, none overlapping
RECURSIVE Spans(_, _)
Spans(t, p) ==
    IF ~HasSpanFrom(t, p) THEN <<>>
    ELSE LET sp == SpanFrom(t, p) IN <<sp>> \o Spans(t, sp[2] + 1)

Resolves(t, sp, d) == get_nested_value(d, SpanPath(t, sp)).status = "returned"

\* t from position p on, with span number k and every later span of sps
\* replaced by the string form of its value
RECURSIVE Substituted(_, _, _, _, _)
Substituted(t, p, sps, k, d) ==
    IF k > Len(sps) THEN SubSeq(t, p, Len(t))
    ELSE SubSeq(t, p, sps[k][1] - 1)
         \o Str(get_nested_value(d, SpanPath(t, sps[k])).val)
         \o Substituted(t, sps[k][2] + 1, sps, k + 1, d)

\* C6: when every placeholder of the text resolves, the call returns the text
\* with each span replaced, left to right, by the string form of its value
\* and everything outside the spans copied; a text without a placeholder
\* (the empty text too) is returned as it is.
C6_SpansReplacedRestKept ==
    rpc = "done" =>
        LET sps == Spans(text, 1) IN
        /\ (\A k \in 1..Len(sps) : Resolves(text, sps[k], data))
               => rresult = TextReturned(Substituted(text, 1, sps, 1, data))
        /\ sps = <<>> => rresult = TextReturned(text)

\* "x{{n}}{{f}}" on Tree1 has become "xNone95.5"
C6_Witness ==
    /\ rpc = "done"
    /\ data = Tree1
    /\ text = <<"x", "{", "{", "n", "}", "}", "{", "{", "f", "}", "}">>
    /\ rresult = TextReturned(<<"x", "N", "o", "n", "e", "9", "5", ".", "5">>)

FirstFailing(t, d) ==
    LET sps == Spans(t, 1)
        k == CHOOSE n \in 1..Len(sps) :
                 /\ ~Resolves(t, sps[n], d)
                 /\ \A m \in 1..(n - 1) : Resolves(t, sps[m], d)
    IN  sps[k]

\* C8 (as claimed): the error wraps the lookup error and names the failing
\* placeholder exactly as it stands in the text, inner whitespace included.
C8_ErrorNamesRawPlaceholder ==
    (rpc = "done" /\ rresult.status = "raised") =>
        LET sp == FirstFailing(text, data) IN
        /\ rresult.err.cause = get_nested_value(data, SpanPath(text, sp)).err
        /\ rresult.err.placeholder = SubSeq(text, sp[1], sp[2])

\* C8 (amended): the error wraps the lookup error and names the failing
\* placeholder as {{ and }} around its trimmed key path.
C8_ErrorNamesTrimmedPlaceholder ==
    (rpc = "done" /\ rresult.status = "raised") =>
        LET sp == FirstFailing(text, data) IN
        /\ rresult.err.cause = get_nested_value(data, SpanPath(text, sp)).err
        /\ rresult.err.cause.kind # ""
        /\ rresult.err.placeholder = <<"{", "{">> \o SpanPath(text, sp) \o <<"}", "}">>

\* "{{ b }}" on the empty tree: the error names {{b}}
C8_Witness ==
    /\ rpc = "done"
    /\ data = Tree3
    /\ text = <<"{", "{", " ", "b", " ", "}", "}">>
    /\ rresult.status = "raised"
    /\ rresult.err.placeholder = <<"{", "{", "b", "}", "}">>
    /\ rresult.err.cause.kind = "KeyNotFound"

\* C9: when a call returned a text that holds no placeholder, the call on
\* that text with the same tree returns the same text.
C9_SecondPassChangesNothing ==
    [][ (/\ rpc = "done" /\ rresult.status = "returned"
         /\ ~HasSpanFrom(rresult.val, 1)
         /\ calls' = calls + 1)
        => (text' = rresult.val /\ rresult' = rresult /\ data' = data) ]_vars

\* a text with a placeholder has been substituted and then substituted again
C9_Witness ==
    /\ rpc = "done"
    /\ calls = 2
    /\ rresult.status = "returned"
    /\ ~HasSpanFrom(text, 1)
    /\ \E i \in 1..Len(text) : text[i] \in {"N", "y"}

\* the string forms the claim names
CanonicalForm(v) ==
    CASE v.tag = "int" /\ v.v = 30 -> <<"3", "0">>
      [] v.tag = "int" /\ v.v = -4 -> <<"-", "4">>
      [] v.tag = "float" /\ v.v = 955 -> <<"9", "5", ".", "5">>
      [] v.tag = "bool" /\ v.v = TRUE -> <<"T", "r", "u", "e">>
      [] v.tag = "bool" /\ v.v = FALSE -> <<"F", "a", "l", "s", "e">>
      [] v.tag = "NoneType" -> <<"N", "o", "n", "e">>
      [] v.tag = "str" -> v.v

Scalars == {"int", "float", "bool", "NoneType", "str"}

\* C10: a text that is one placeholder resolving to a scalar becomes the
\* scalar's string form: the decimal digits of a number, True or False, None,
\* the str itself without quotes.
C10_ScalarStringForm ==
    (rpc = "done" /\ Spans(text, 1) = << <<1, Len(text)>> >>) =>
        LET value == get_nested_value(data, SpanPath(text, <<1, Len(text)>>)) IN
        (value.status = "returned" /\ value.val.tag \in Scalars)
            => rresult = TextReturned(CanonicalForm(value.val))

\* "{{ b }}" on Tree1 has become yz
C10_Witness ==
    /\ rpc = "done"
    /\ data = Tree1
    /\ text = <<"{", "{", " ", "b", " ", "}", "}">>
    /\ rresult = TextReturned(<<"y", "z">>)

----------------------------------------------------------------------------
(* Presentations *)

\* run.font.name of a run that defines no font name; any unset attribute
None == "None"

\* the vertical tab, the text of a line break in paragraph.text
VT == "VT"

\* run.font.color: no colour, an RGB colour (color.type == 1), a theme colour
NoColor == [type |-> None, rgb |-> None]
RGBColor(rgb) == [type |-> "RGB", rgb |-> rgb]
ThemeColor == [type |-> "SCHEME", rgb |-> None]

\* a run (a:r) with its text and the attributes of its font
FormattedRun(run_text, font_name, size, bold, italic, underline, color) ==
    [kind |-> "r", text |-> run_text, font_name |-> font_name, size |-> size,
     bold |-> bold, italic |-> italic, underline |-> underline, color |-> color]

\* a run: its text and its font name, no other attribute defined
Run(run_text, font_name) ==
    FormattedRun(run_text, font_name, None, None, None, None, NoColor)

\* the other children of a paragraph that have a text: a line break (a:br)
\* and a field (a:fld); they are no runs
LineBreak == [Run(<<VT>>, None) EXCEPT !.kind = "br"]
Field(field_text) == [Run(field_text, None) EXCEPT !.kind = "fld"]

\* paragraph.runs of a paragraph (the sequence of its children)
runs(paragraph) == SelectSeq(paragraph, LAMBDA child : child.kind = "r")

\* paragraph.text of a paragraph: the texts of its children joined
RECURSIVE ParagraphText(_)
ParagraphText(paragraph) ==
    IF paragraph = <<>> THEN <<>>
    ELSE Head(paragraph).text \o ParagraphText(Tail(paragraph))

\* a shape with a text_frame; copies tells whether deepcopy(shape.element) succeeds
TextBox(paragraphs) ==
    [text_frame |-> TRUE, copies |-> TRUE, paragraphs |-> paragraphs,
     image_loads |-> TRUE, embed |-> None]

\* a picture: a shape without a text_frame; embed is the relationship its
\* blip refers to (that of the slide it was copied from, or one of its own
\* slide), image_loads tells whether its image part can be read and added to
\* another slide
Picture(copies) ==
    [text_frame |-> FALSE, copies |-> copies, paragraphs |-> <<>>,
     image_loads |-> TRUE, embed |-> "rId"]

\* a picture whose image part cannot be read
UnreadablePicture == [Picture(TRUE) EXCEPT !.image_loads = FALSE]

\* a slide; copied_from is the 1-based position in the template of the slide
\* it was copied from (0 for a slide of the template itself)
Slide(copied_from, shapes) == [copied_from |-> copied_from, shapes |-> shapes]

\* sub in t, for two str
Contains(t, sub) ==
    \E i \in 1..(Len(t) - Len(sub) + 1) : SubSeq(t, i, i + Len(sub) - 1) = sub

----------------------------------------------------------------------------
(* SlideCopier.copy_slide *)

\* the loop over the shapes ends at the first shape whose deepcopy fails
CopiedShapes_StopAtFailure(shapes) ==
    LET failing == { k \in 1..Len(shapes) : ~shapes[k].copies }
    IN  IF failing = {} THEN shapes
        ELSE SubSeq(shapes, 1, (CHOOSE k \in failing : \A m \in failing : k <= m) - 1)

\* lines 98-104: the shapes whose deepcopy succeeds, in order
CopiedShapes(shapes) == SelectSeq(shapes, LAMBDA shape : shape.copies)

\* lines 139-205: every image part of the source slide is added to the new
\* slide, then the pictures of the new slide are made to refer to the new
\* relationships; an exception on the way is swallowed and leaves every
\* picture with the relationship id it was copied with
copy_images(source_shapes, dest_shapes) ==
    IF \E k \in 1..Len(source_shapes) :
           ~source_shapes[k].text_frame /\ ~source_shapes[k].image_loads
    THEN dest_shapes
    ELSE [ k \in 1..Len(dest_shapes) |->
             IF dest_shapes[k].text_frame THEN dest_shapes[k]
             ELSE [dest_shapes[k] EXCEPT !.embed = "new rId"] ]

\* copy_slide with the new slide put in front of the slides already there
copy_slide_Prepend(source_prs, source_slide_index, target_prs) ==
    << Slide(source_slide_index + 1,
             copy_images(source_prs[source_slide_index + 1].shapes,
                         CopiedShapes(source_prs[source_slide_index + 1].shapes))) >>
       \o target_prs

\* lines 28-109: a new slide at the end of target_prs holding the copied
\* shapes of source_prs.slides[source_slide_index] (0-based index)
copy_slide(source_prs, source_slide_index, target_prs) ==
    Append(target_prs,
           Slide(source_slide_index + 1,
                 copy_images(source_prs[source_slide_index + 1].shapes,
                             CopiedShapes(source_prs[source_slide_index + 1].shapes))))

----------------------------------------------------------------------------
(* TemplateEngine._normalize_fonts_in_slide *)

\* run.text.strip() is truthy
HasText(run) == Strip(run.text) # <<>>

\* every run of every paragraph of every shape that has a text_frame
RunsOf(slide) ==
    UNION { UNION { { runs(slide.shapes[i].paragraphs[j])[k] :
                        k \in 1..Len(runs(slide.shapes[i].paragraphs[j])) } :
                    j \in 1..Len(slide.shapes[i].paragraphs) } :
            i \in { n \in 1..Len(slide.shapes) : slide.shapes[n].text_frame } }

\* lines 78-84
slide_fonts(slide) ==
    { run.font_name : run \in { r \in RunsOf(slide) : HasText(r) /\ r.font_name # None } }

\* line 87: set.pop() hands out an arbitrary member of slide_fonts
DefaultFonts(slide) ==
    IF slide_fonts(slide) = {} THEN {"Meiryo UI"} ELSE slide_fonts(slide)

\* the reference is the first run with a font name, whatever its text
reference_font_name_AnyText(paragraph, default_font) ==
    LET defined == { k \in 1..Len(runs(paragraph)) : runs(paragraph)[k].font_name # None }
    IN  IF defined = {} THEN default_font
        ELSE runs(paragraph)[CHOOSE k \in defined : \A m \in defined : k <= m].font_name

\* lines 99-107
reference_font_name(paragraph, default_font) ==
    LET defined == { k \in 1..Len(runs(paragraph)) :
                        HasText(runs(paragraph)[k]) /\ runs(paragraph)[k].font_name # None }
    IN  IF defined = {} THEN default_font
        ELSE runs(paragraph)[CHOOSE k \in defined : \A m \in defined : k <= m].font_name

\* every run takes the reference font name, the runs that have one too
NormalizeParagraph_AllRuns(paragraph, default_font) ==
    IF Strip(ParagraphText(paragraph)) = <<>> THEN paragraph
    ELSE [ k \in 1..Len(paragraph) |->
             IF paragraph[k].kind = "r"
             THEN [paragraph[k] EXCEPT !.font_name =
                        reference_font_name(paragraph, default_font)]
             ELSE paragraph[k] ]

\* lines 93-112, for one paragraph
NormalizeParagraph(paragraph, default_font) ==
    IF Strip(ParagraphText(paragraph)) = <<>> THEN paragraph
    ELSE [ k \in 1..Len(paragraph) |->
             IF paragraph[k].kind = "r" /\ paragraph[k].font_name = None
             THEN [paragraph[k] EXCEPT !.font_name =
                        reference_font_name(paragraph, default_font)]
             ELSE paragraph[k] ]

\* lines 89-112
normalize_fonts_in_slide(slide, default_font) ==
    [ slide EXCEPT !.shapes =
        [ i \in 1..Len(slide.shapes) |->
            IF ~slide.shapes[i].text_frame THEN slide.shapes[i]
            ELSE [ slide.shapes[i] EXCEPT !.paragraphs =
                     [ j \in 1..Len(slide.shapes[i].paragraphs) |->
                         NormalizeParagraph(slide.shapes[i].paragraphs[j],
                                            default_font) ] ] ] ]

----------------------------------------------------------------------------
(* TemplateEngine._replace_placeholders_in_slide *)

\* the control characters of [\x00-\x08\x0C\x0E-\x1F] the model writes
\* ("\f" is \x0C); "\t", "\n" and "\r" are outside that class
DroppedControls == {"NUL", "BEL", "\f", "ESC"}

\* the tab is dropped as well
CleanControl_DropsTab(t) ==
    SelectSeq([ i \in 1..Len(t) |-> IF t[i] = VT THEN "\n" ELSE t[i] ],
              LAMBDA c : c \notin DroppedControls \cup {"\t"})

\* lines 150-152
CleanControl(t) ==
    SelectSeq([ i \in 1..Len(t) |-> IF t[i] = VT THEN "\n" ELSE t[i] ],
              LAMBDA c : c \notin DroppedControls)

\* reference_run of a paragraph without runs
NoRun == [kind |-> None]

\* the reference is the last run with a font name
reference_run_Last(paragraph) ==
    LET defined == { k \in 1..Len(runs(paragraph)) : runs(paragraph)[k].font_name # None }
    IN  IF defined # {}
        THEN runs(paragraph)[CHOOSE k \in defined : \A m \in defined : k >= m]
        ELSE IF Len(runs(paragraph)) > 0 THEN runs(paragraph)[1]
        ELSE NoRun

\* lines 155-163
reference_run(paragraph) ==
    LET defined == { k \in 1..Len(runs(paragraph)) : runs(paragraph)[k].font_name # None }
    IN  IF defined # {}
        THEN runs(paragraph)[CHOOSE k \in defined : \A m \in defined : k <= m]
        ELSE IF Len(runs(paragraph)) > 0 THEN runs(paragraph)[1]
        ELSE NoRun

\* without a reference run no font name is saved
SavedFormatting_NoDefault(ref) ==
    IF ref = NoRun
    THEN [font_name |-> None, size |-> None, bold |-> None, italic |-> None,
          underline |-> None, color |-> NoColor]
    ELSE [font_name |-> ref.font_name, size |-> ref.size, bold |-> ref.bold,
          italic |-> ref.italic, underline |-> ref.underline,
          color |-> IF ref.color.type = "RGB" THEN ref.color
                    ELSE [type |-> ref.color.type, rgb |-> None]]

\* lines 166-190: the formatting saved from the reference run; the rgb value
\* is read for an RGB colour only
SavedFormatting(ref) ==
    IF ref = NoRun
    THEN [font_name |-> "Arial", size |-> None, bold |-> None, italic |-> None,
          underline |-> None, color |-> NoColor]
    ELSE [font_name |-> ref.font_name, size |-> ref.size, bold |-> ref.bold,
          italic |-> ref.italic, underline |-> ref.underline,
          color |-> IF ref.color.type = "RGB" THEN ref.color
                    ELSE [type |-> ref.color.type, rgb |-> None]]

\* lines 196-216: the new run, with the saved attributes that are not None
NewRun(new_text, saved) ==
    [ Run(new_text, None) EXCEPT
        !.font_name = IF saved.font_name # None THEN saved.font_name ELSE @,
        !.size = IF saved.size # None THEN saved.size ELSE @,
        !.bold = IF saved.bold # None THEN saved.bold ELSE @,
        !.italic = IF saved.italic # None THEN saved.italic ELSE @,
        !.underline = IF saved.underline # None THEN saved.underline ELSE @,
        !.color = IF saved.color.type = "RGB" /\ saved.color.rgb # None
                  THEN RGBColor(saved.color.rgb) ELSE @ ]

\* a failed replace_text empties the paragraph instead of leaving it
Rewritten_ClearsOnFailure(paragraph, full_text, new_text) ==
    IF new_text.status = "raised" THEN << >>
    ELSE IF new_text.val = full_text THEN paragraph
    ELSE << NewRun(CleanControl(new_text.val), SavedFormatting(reference_run(paragraph))) >>

\* the new run is put behind the runs of the paragraph, which are kept
Rewritten_KeepsRuns(paragraph, full_text, new_text) ==
    IF new_text.status = "raised" THEN paragraph
    ELSE IF new_text.val = full_text THEN paragraph
    ELSE Append(paragraph,
                NewRun(CleanControl(new_text.val), SavedFormatting(reference_run(paragraph))))

\* lines 144-216: what becomes of the paragraph once replace_text has ended
\* with new_text (a returned str, or a raised error)
Rewritten(paragraph, full_text, new_text) ==
    IF new_text.status = "raised" THEN paragraph
    ELSE IF new_text.val = full_text THEN paragraph
    ELSE << NewRun(CleanControl(new_text.val), SavedFormatting(reference_run(paragraph))) >>

\* line 134
HasBraces(full_text) ==
    Contains(full_text, <<"{", "{">>) /\ Contains(full_text, <<"}", "}">>)

\* lines 131-216, for one paragraph
ReplaceParagraph(paragraph, replacements) ==
    IF ~HasBraces(ParagraphText(paragraph)) THEN paragraph
    ELSE Rewritten(paragraph, ParagraphText(paragraph),
                   replace_text(ParagraphText(paragraph), replacements))

\* lines 125-216
replace_placeholders_in_slide(slide, replacements) ==
    [ slide EXCEPT !.shapes =
        [ i \in 1..Len(slide.shapes) |->
            IF ~slide.shapes[i].text_frame THEN slide.shapes[i]
            ELSE [ slide.shapes[i] EXCEPT !.paragraphs =
                     [ j \in 1..Len(slide.shapes[i].paragraphs) |->
                         ReplaceParagraph(slide.shapes[i].paragraphs[j],
                                          replacements) ] ] ] ]

----------------------------------------------------------------------------
(* Inputs of the engine *)

\* a configuration has at most MaxEntries slide entries
MaxEntries == 2
\* at most MaxProcessCalls calls of process run on one engine
MaxProcessCalls == 2

slides_key == <<"s", "l", "i", "d", "e", "s">>
src_page_key == <<"s", "r", "c", "_", "p", "a", "g", "e">>
replace_texts_key == <<"r", "e", "p", "l", "a", "c", "e", "_", "t", "e", "x", "t", "s">>

\* one text box; the placeholder {{b}} is split over two runs without font name
Slide1 ==
    Slide(0, << TextBox(<< << Run(<<"x", " ">>, "Arial"), Run(<<"{", "{">>, None), Run(<<"b", "}", "}">>, None) >> >>) >>)

\* one text box of four paragraphs: {{m}} (no tree has m), {{n}}, plain text,
\* and a blank paragraph whose run has no font name; and a picture
Slide2 ==
    Slide(0, << TextBox(<< << Run(<<"{", "{", "m", "}", "}">>, None) >>,
                           << Run(<<"{", "{", "n", "}", "}">>, "Meiryo") >>,
                           << Run(<<"x">>, "Arial") >>,
                           << Run(<<" ">>, None) >> >>),
                Picture(TRUE) >>)

\* two pictures (the second one fails to deepcopy), one text box of three
\* paragraphs (a blank run with a font, {{b}} without one, text with another
\* font; the placeholder {{ }} whose key path is empty; the placeholder {{b}}
\* in a field, without any run) and a picture whose image cannot be read
Slide3 ==
    Slide(0, << Picture(TRUE), Picture(FALSE),
                TextBox(<< << Run(<<" ">>, "Calibri"), Run(<<"{", "{", "b", "}", "}">>, None), Run(<<"x">>, "Arial") >>,
                           << Run(<<"{", "{", " ", "}", "}">>, None) >>,
                           << Field(<<"{", "{", "b", "}", "}">>) >> >>),
                UnreadablePicture >>)

Templates == { <<Slide1>>, <<Slide1, Slide2, Slide3>> }

SlideEntry(src_page) == VDict(<< <<src_page_key, src_page>> >>)

SlideEntryWith(src_page, replace_texts) ==
    VDict(<< <<src_page_key, src_page>>, <<replace_texts_key, replace_texts>> >>)

\* the slide entries configurations are put together from
Entries ==
    { VStr(<<"n", "o", "t", " ", "a", " ", "d", "i", "c", "t">>),
      VDict(<< <<replace_texts_key, Tree1>> >>),
      SlideEntry(VStr(<<"1">>)),
      SlideEntry(VInt(0)),
      SlideEntry(VInt(-1)),
      SlideEntry(VInt(1)),
      SlideEntry(VInt(4)),
      SlideEntryWith(VBool(TRUE), Tree1),
      SlideEntryWith(VInt(1), Tree1),
      SlideEntryWith(VInt(2), Tree1),
      SlideEntryWith(VInt(2), Tree2),
      SlideEntryWith(VInt(3), Tree1),
      SlideEntryWith(VInt(3), Tree3) }

RECURSIVE SeqsUpTo(_, _)
SeqsUpTo(S, n) ==
    IF n = 0 THEN {<<>>}
    ELSE LET shorter == SeqsUpTo(S, n - 1)
         IN  shorter \cup {Append(q, e) : q \in shorter, e \in S}

ConfigOf(entries) == VDict(<< <<slides_key, VList(entries)>> >>)

\* configurations whose top level is malformed
MalformedConfigs ==
    { VNone,
      VList(<< SlideEntry(VInt(1)) >>),
      VDict(<< <<<<"i", "n", "v", "a", "l", "i", "d">>, VStr(<<"c", "o", "n", "f", "i", "g">>)>> >>),
      VDict(<< <<slides_key, VStr(<<"n", "o", "t", " ", "a", " ", "l", "i", "s", "t">>)>> >>) }

Configs == { ConfigOf(entries) : entries \in SeqsUpTo(Entries, MaxEntries) } \cup MalformedConfigs

\* the file at a config path: absent, not JSON, or the JSON text of content
NoConfigFile == [exists |-> FALSE, parses |-> FALSE, content |-> VNone]
BrokenConfigFile == [exists |-> TRUE, parses |-> FALSE, content |-> VNone]
ConfigFile(content) == [exists |-> TRUE, parses |-> TRUE, content |-> content]

ConfigFiles ==
    { NoConfigFile, BrokenConfigFile,
      ConfigFile(ConfigOf(<< SlideEntryWith(VInt(1), Tree1) >>)),
      ConfigFile(ConfigOf(<< SlideEntryWith(VInt(2), Tree2), SlideEntry(VInt(4)) >>)),
      ConfigFile(VDict(<< <<<<"i", "n", "v", "a", "l", "i", "d">>, VStr(<<"c", "o", "n", "f", "i", "g">>)>> >>)) }

\* a config argument that is a path: a str, or a pathlib.Path
config_path == <<"c", "o", "n", "f", "i", "g", ".", "j", "s", "o", "n">>
VPath(path) == [tag |-> "Path", v |-> path]

\* the locals of one process call that has not started
NewFrame(config, config_file) ==
    [config |-> config, config_file |-> config_file, pc |-> "load_config",
     slides_config |-> <<>>, idx |-> 0, output_prs |-> <<>>, result |-> NotCalled]

\* process called with a configuration object, or with a path
ObjectCalls == { NewFrame(config, NoConfigFile) : config \in Configs }
PathCalls(arg) == { NewFrame(arg, file) : file \in ConfigFiles }

NoFile == [written |-> FALSE, prs |-> <<>>]

----------------------------------------------------------------------------
(* TemplateEngine.__init__ and TemplateEngine.process, statement by statement *)

\* isinstance(v, int): bool is a subclass of int
IsInt(v) == v.tag \in {"int", "bool"}

\* the number an int or a bool compares and subtracts as
IntOf(v) == IF v.tag = "bool" THEN (IF v.v THEN 1 ELSE 0) ELSE v.v

\* bool(v), as the statement `if replace_texts:` takes it
Truthy(v) ==
    CASE v.tag \in {"dict", "list", "tuple", "str"} -> Len(v.v) > 0
      [] v.tag \in {"int", "float"} -> v.v # 0
      [] v.tag = "bool" -> v.v
      [] OTHER -> FALSE

\* line 271: slide_config.get("replace_texts", {})
replace_texts(slide_config) ==
    IF DictHas(slide_config, replace_texts_key)
    THEN DictGet(slide_config, replace_texts_key)
    ELSE VDict(<< >>)

\* lines 257-260: the slides are dropped from the front until none is left
RECURSIVE DropSlides(_)
DropSlides(prs) == IF Len(prs) > 0 THEN DropSlides(Tail(prs)) ELSE prs

\* lines 264-283: the error the entry at idx is rejected with, or NoException
EntryError(slide_config, idx, template_slides) ==
    IF slide_config.tag # "dict"
    THEN TemplateError("SlideConfigNotDict", idx, NoValue, -1, <<>>)
    ELSE IF ~DictHas(slide_config, src_page_key)
    THEN TemplateError("MissingSrcPage", idx, NoValue, -1, <<>>)
    ELSE LET src_page == DictGet(slide_config, src_page_key) IN
         IF ~IsInt(src_page) \/ IntOf(src_page) < 1
         THEN TemplateError("InvalidSrcPage", idx, src_page, -1, <<>>)
         ELSE IF IntOf(src_page) > template_slides
         THEN TemplateError("SrcPageExceeds", idx, src_page, template_slides, <<>>)
         ELSE NoException

\* one output document serves every call: a write by one call shows in all
SetOutputPrs_Shared(frames, c, prs) ==
    [ d \in DOMAIN frames |-> [frames[d] EXCEPT !.output_prs = prs] ]

\* line 254: output_prs is a local of the call; the call c writes its own
SetOutputPrs(frames, c, prs) == [frames EXCEPT ![c].output_prs = prs]

\* a raise statement of call c
Raise(c, e) == frame' = [frame EXCEPT ![c].pc = "done", ![c].result = Failed(e)]

\* the slide the loop body works on: the last one of output_prs
new_slide(c) == frame[c].output_prs[Len(frame[c].output_prs)]

\* lines 40-51: TemplateEngine(template_path); the file may be absent or unreadable
Construct ==
    /\ init_result.status = "none"
    /\ main_pc \in {"idle", "try"}
    /\ \E exists \in BOOLEAN, loads \in BOOLEAN :
         IF ~exists
         THEN /\ init_result' = Failed(TemplateError("TemplateFileNotFound", -1, NoValue, -1,
                                                     <<"template_path">>))
              /\ UNCHANGED template_prs
         ELSE IF ~loads
         THEN /\ init_result' = Failed(TemplateError("FailedToLoadTemplate", -1, NoValue, -1,
                                                     <<"str(e)">>))
              /\ UNCHANGED template_prs
         ELSE /\ template_prs' = template_file
              /\ init_result' = Completed
    /\ UNCHANGED <<data, resolverVars, replacerVars, template_file, frame, output_file, cliVars, slideVars>>

\* lines 234-242: a str or Path config is read from its file
LoadConfig(c) ==
    /\ init_result.status = "returned"
    /\ main_pc \in {"idle", "try"}
    /\ frame[c].pc = "load_config"
    /\ IF frame[c].config.tag \in {"str", "Path"}
       THEN IF ~frame[c].config_file.exists
            THEN Raise(c, TemplateError("ConfigFileNotFound", -1, NoValue, -1, frame[c].config.v))
            ELSE IF ~frame[c].config_file.parses
            THEN Raise(c, TemplateError("FailedToLoadConfig", -1, NoValue, -1, <<"str(e)">>))
            ELSE frame' = [frame EXCEPT ![c].config = frame[c].config_file.content,
                                        ![c].pc = "validate"]
       ELSE frame' = [frame EXCEPT ![c].pc = "validate"]
    /\ UNCHANGED <<data, resolverVars, replacerVars, template_file, template_prs,
                   init_result, output_file, cliVars, slideVars>>

\* lines 245-250
ValidateConfig(c) ==
    /\ frame[c].pc = "validate"
    /\ IF frame[c].config.tag # "dict" \/ ~DictHas(frame[c].config, slides_key)
       THEN Raise(c, TemplateError("ConfigMustContainSlides", -1, NoValue, -1, <<>>))
       ELSE IF DictGet(frame[c].config, slides_key).tag # "list"
       THEN Raise(c, TemplateError("SlidesMustBeList", -1, NoValue, -1, <<>>))
       ELSE frame' = [frame EXCEPT ![c].slides_config = DictGet(frame[c].config, slides_key).v,
                                   ![c].pc = "new_output"]
    /\ UNCHANGED <<data, resolverVars, replacerVars, template_file, template_prs,
                   init_result, output_file, cliVars, slideVars>>

\* lines 254-260: the template file is opened again (it may have gone since
\* __init__) and emptied of its slides
NewOutput(c) ==
    /\ frame[c].pc = "new_output"
    /\ \E opened \in BOOLEAN :
         IF ~opened
         THEN Raise(c, PackageNotFoundError)
         ELSE frame' = [SetOutputPrs(frame, c, DropSlides(template_file))
                            EXCEPT ![c].idx = 0, ![c].pc = "for"]
    /\ UNCHANGED <<data, resolverVars, replacerVars, template_file, template_prs,
                   init_result, output_file, cliVars, slideVars>>

\* the for loop ends as soon as one entry has been processed
LoopEnds_AfterOne(idx, slides_config) == idx >= Len(slides_config) \/ idx >= 1

\* line 263: enumerate(slides_config) has no entry left for idx
LoopEnds(idx, slides_config) == idx >= Len(slides_config)

\* lines 263-283: the next entry, if any, is validated
ForSlideConfig(c) ==
    /\ frame[c].pc = "for"
    /\ IF LoopEnds(frame[c].idx, frame[c].slides_config)
       THEN frame' = [frame EXCEPT ![c].pc = "save"]
       ELSE LET e == EntryError(frame[c].slides_config[frame[c].idx + 1], frame[c].idx,
                                Len(template_prs))
            IN  IF e # NoException
                THEN Raise(c, e)
                ELSE frame' = [frame EXCEPT ![c].pc = "copy"]
    /\ UNCHANGED <<data, resolverVars, replacerVars, template_file, template_prs,
                   init_result, output_file, cliVars, slideVars>>

\* line 287
CopySlide(c) ==
    /\ frame[c].pc = "copy"
    /\ LET src_page == DictGet(frame[c].slides_config[frame[c].idx + 1], src_page_key) IN
       frame' = [SetOutputPrs(frame, c,
                              copy_slide(template_prs, IntOf(src_page) - 1, frame[c].output_prs))
                    EXCEPT ![c].pc = "normalize"]
    /\ UNCHANGED <<data, resolverVars, replacerVars, template_file, template_prs,
                   init_result, output_file, cliVars, slideVars>>

\* the substitution is never run
AfterFirstPass_NeverSubstitutes(slide_config) == "normalize_again"

\* line 293: `if replace_texts:` runs the substitution for a non-empty tree
AfterFirstPass(slide_config) ==
    IF Truthy(replace_texts(slide_config)) THEN "replace" ELSE "normalize_again"

\* lines 290-293: the first pass, then the test `if replace_texts:`
NormalizeFonts(c) ==
    /\ frame[c].pc = "normalize"
    /\ \E default_font \in DefaultFonts(new_slide(c)) :
         frame' = [SetOutputPrs(frame, c,
                                [frame[c].output_prs EXCEPT ![Len(frame[c].output_prs)] =
                                    normalize_fonts_in_slide(@, default_font)])
                      EXCEPT ![c].pc =
                         AfterFirstPass(frame[c].slides_config[frame[c].idx + 1])]
    /\ UNCHANGED <<data, resolverVars, replacerVars, template_file, template_prs,
                   init_result, output_file, cliVars, slideVars>>

\* line 294
ReplacePlaceholders(c) ==
    /\ frame[c].pc = "replace"
    /\ frame' = [SetOutputPrs(frame, c,
                              [frame[c].output_prs EXCEPT ![Len(frame[c].output_prs)] =
                                  replace_placeholders_in_slide(
                                      @, replace_texts(frame[c].slides_config[frame[c].idx + 1]))])
                    EXCEPT ![c].pc = "normalize_again"]
    /\ UNCHANGED <<data, resolverVars, replacerVars, template_file, template_prs,
                   init_result, output_file, cliVars, slideVars>>

\* line 298, and the step of the for loop to the next entry
NormalizeFontsAgain(c) ==
    /\ frame[c].pc = "normalize_again"
    /\ \E default_font \in DefaultFonts(new_slide(c)) :
         frame' = [SetOutputPrs(frame, c,
                                [frame[c].output_prs EXCEPT ![Len(frame[c].output_prs)] =
                                    normalize_fonts_in_slide(@, default_font)])
                      EXCEPT ![c].idx = @ + 1, ![c].pc = "for"]
    /\ UNCHANGED <<data, resolverVars, replacerVars, template_file, template_prs,
                   init_result, output_file, cliVars, slideVars>>

\* lines 301-304: the save may fail
Save(c) ==
    /\ frame[c].pc = "save"
    /\ \E saves \in BOOLEAN :
         IF saves
         THEN /\ output_file' = [output_file EXCEPT
                                   ![c] = [written |-> TRUE, prs |-> frame[c].output_prs]]
              /\ frame' = [frame EXCEPT ![c].pc = "done", ![c].result = Completed]
         ELSE /\ Raise(c, TemplateError("FailedToSaveOutput", -1, NoValue, -1, <<"str(e)">>))
              /\ UNCHANGED output_file
    /\ UNCHANGED <<data, resolverVars, replacerVars, template_file, template_prs,
                   init_result, cliVars, slideVars>>

\* one statement of the call c of process
Process(c) ==
    \/ LoadConfig(c)
    \/ ValidateConfig(c)
    \/ NewOutput(c)
    \/ ForSlideConfig(c)
    \/ CopySlide(c)
    \/ NormalizeFonts(c)
    \/ ReplacePlaceholders(c)
    \/ NormalizeFontsAgain(c)
    \/ Save(c)

----------------------------------------------------------------------------
(* cli.main *)

\* a line on sys.stderr: the text before the exception's message, and the exception
ErrorLine(prefix, exc) == [prefix |-> prefix, exc |-> exc]

\* lines 63-75: the two exists() tests; main works on the call 1 of process
MainCheckFiles ==
    /\ main_pc = "start"
    /\ \E template_exists \in BOOLEAN :
         IF ~template_exists
         THEN /\ stderr' = Append(stderr, ErrorLine("Error: Template file not found: ", NoException))
              /\ returncode' = 1
              /\ main_pc' = "done"
         ELSE IF ~frame[1].config_file.exists
         THEN /\ stderr' = Append(stderr, ErrorLine("Error: Config file not found: ", NoException))
              /\ returncode' = 1
              /\ main_pc' = "done"
         ELSE /\ main_pc' = "try"
              /\ UNCHANGED <<stderr, returncode>>
    /\ UNCHANGED <<data, resolverVars, replacerVars, engineVars, slideVars>>

\* only a TemplateError is handled
IsException_OnlyTemplateError(type) == type = "TemplateError"

\* line 87: the classes `except Exception` handles
IsException(type) == type \in {"TemplateError", "PackageNotFoundError"}

\* lines 81-89: the try block has ended, by its return or in an except clause
\* ("escaped": no clause handles the exception and it leaves main)
MainReturn ==
    /\ main_pc = "try"
    /\ init_result.status = "raised" \/ frame[1].pc = "done"
    /\ LET outcome == IF init_result.status = "raised" THEN init_result ELSE frame[1].result IN
       IF outcome.status = "returned"
       THEN /\ returncode' = 0
            /\ main_pc' = "done"
            /\ UNCHANGED stderr
       ELSE IF outcome.exc.type = "TemplateError"
       THEN /\ stderr' = Append(stderr, ErrorLine("Error: ", outcome.exc))
            /\ returncode' = 1
            /\ main_pc' = "done"
       ELSE IF IsException(outcome.exc.type)
       THEN /\ stderr' = Append(stderr, ErrorLine("Unexpected error: ", outcome.exc))
            /\ returncode' = 1
            /\ main_pc' = "done"
       ELSE /\ main_pc' = "escaped"
            /\ UNCHANGED <<stderr, returncode>>
    /\ UNCHANGED <<data, resolverVars, replacerVars, engineVars, slideVars>>

----------------------------------------------------------------------------
(* One engine, one call of process, made by a program or by cli.main *)

ResolverIdle ==
    /\ data = Tree3
    /\ key_path = <<>>
    /\ pc = "idle"
    /\ keys = <<>>
    /\ ki = 1
    /\ current = NoValue
    /\ result = Pending

ReplacerIdle ==
    /\ text = <<>>
    /\ rpc = "idle"
    /\ calls = 0
    /\ rresult = TextPending

InitProcess ==
    /\ ResolverIdle
    /\ ReplacerIdle
    /\ SlideIdle
    /\ template_file \in Templates
    /\ template_prs = <<>>
    /\ init_result = NotCalled
    /\ \/ /\ main_pc = "idle"
          /\ frame \in { <<f>> : f \in ObjectCalls \cup PathCalls(VStr(config_path)) }
       \/ /\ main_pc = "start"
          /\ frame \in { <<f>> : f \in PathCalls(VPath(config_path)) }
    /\ output_file = <<NoFile>>
    /\ returncode = -1
    /\ stderr = <<>>

NextProcess == MainCheckFiles \/ Construct \/ Process(1) \/ MainReturn

SpecProcess == InitProcess /\ [][NextProcess]_vars

----------------------------------------------------------------------------
(* One engine, several calls of process whose statements interleave *)

\* the calls made on the shared engine
SharedCalls ==
    { NewFrame(ConfigOf(<< SlideEntryWith(VInt(2), Tree1), SlideEntryWith(VInt(3), Tree3) >>),
               NoConfigFile),
      NewFrame(VStr(config_path),
               ConfigFile(ConfigOf(<< SlideEntryWith(VInt(2), Tree2), VStr(<<"x">>) >>))) }

InitCalls ==
    /\ ResolverIdle
    /\ ReplacerIdle
    /\ CliIdle
    /\ SlideIdle
    /\ template_file \in Templates
    /\ template_prs = template_file
    /\ init_result = Completed
    /\ frame \in [1..MaxProcessCalls -> SharedCalls]
    /\ output_file = [c \in 1..MaxProcessCalls |-> NoFile]

NextCalls == \E c \in DOMAIN frame : Process(c)

SpecCalls == InitCalls /\ [][NextCalls]_vars

----------------------------------------------------------------------------
(* The two slide passes of the engine, called on one slide *)

\* the text box of a slide has at most MaxParagraphs paragraphs
MaxParagraphs == 2
\* at most MaxSlideCalls calls are made on the slide
MaxSlideCalls == 2

\* {"b": "yz", "e": "", "v": "a\x0b\t\x00\n\r\x1bc\x07\x0c"}
TreeV ==
    VDict(<< << <<"b">>, VStr(<<"y", "z">>) >>,
             << <<"e">>, VStr(<< >>) >>,
             << <<"v">>, VStr(<<"a", VT, "\t", "NUL", "\n", "\r", "ESC", "c", "BEL", "\f">>) >> >>)

SlideTrees == {TreeV, Tree1}

\* the paragraphs slides are put together from
Paragraphs ==
    { \* {{b}} split over two runs behind a run with a font name
      << Run(<<"x", " ">>, "Arial"), Run(<<"{", "{">>, None), Run(<<"b", "}", "}">>, None) >>,
      \* no font name at all, and a placeholder Tree1 and TreeV do not have
      << Run(<<"{", "{", "m", "}", "}">>, None) >>,
      \* the second run is the first one with a font name, and has every attribute
      << Run(<<"{", "{", "b", "}", "}">>, None),
         FormattedRun(<<"x">>, "Meiryo", "12pt", "True", "False", "None", RGBColor("FF0000")) >>,
      \* no run has a font name: the first run, with a theme colour, is the reference
      << FormattedRun(<<"{", "{", "v", "}", "}">>, None, "18pt", None, "True", "True", ThemeColor),
         FormattedRun(<<"!">>, None, "9pt", "True", None, None, RGBColor("00FF00")) >>,
      \* no run: the placeholder is the text of a field
      << Field(<<"{", "{", "b", "}", "}">>) >>,
      \* a line break between two runs; {{e}} is replaced by the empty str
      << Run(<<"a">>, "Arial"), LineBreak, Run(<<"{", "{", "e", "}", "}">>, None) >>,
      \* blank paragraphs
      << Run(<<" ">>, None) >>,
      << Run(<<" ">>, "Calibri"), LineBreak, Run(<< >>, None) >>,
      \* a blank run with a font name before {{v}}
      << Run(<<" ">>, "Calibri"), Run(<<"{", "{", "v", "}", "}">>, None) >>,
      \* Arial twice, Meiryo once
      << Run(<<"x">>, "Arial"), Run(<<"y">>, "Arial"), Run(<<"z">>, "Meiryo") >> }

\* a picture, and a text box of one paragraph at least
Slides ==
    { Slide(0, << Picture(TRUE), TextBox(paragraphs) >>) :
        paragraphs \in SeqsUpTo(Paragraphs, MaxParagraphs) \ {<< >>} }

\* one call made on the slide
SlideCall(method, default_font, replacements) ==
    [method |-> method, default_font |-> default_font, replacements |-> replacements]

InitSlide ==
    /\ ResolverIdle
    /\ ReplacerIdle
    /\ EngineIdle
    /\ CliIdle
    /\ cur_slide \in Slides
    /\ slide_calls = << >>

\* self._normalize_fonts_in_slide(slide)
NormalizeFontsInSlide ==
    /\ Len(slide_calls) < MaxSlideCalls
    /\ \E default_font \in DefaultFonts(cur_slide) :
         /\ cur_slide' = normalize_fonts_in_slide(cur_slide, default_font)
         /\ slide_calls' = Append(slide_calls,
                                  SlideCall("_normalize_fonts_in_slide", default_font, VNone))
    /\ UNCHANGED <<data, resolverVars, replacerVars, engineVars, cliVars>>

\* self._replace_placeholders_in_slide(slide, replacements)
ReplacePlaceholdersInSlide ==
    /\ Len(slide_calls) < MaxSlideCalls
    /\ \E replacements \in SlideTrees :
         /\ cur_slide' = replace_placeholders_in_slide(cur_slide, replacements)
         /\ slide_calls' = Append(slide_calls,
                                  SlideCall("_replace_placeholders_in_slide", None, replacements))
    /\ UNCHANGED <<data, resolverVars, replacerVars, engineVars, cliVars>>

NextSlide == NormalizeFontsInSlide \/ ReplacePlaceholdersInSlide

SpecSlide == InitSlide /\ [][NextSlide]_vars

----------------------------------------------------------------------------
(* The output of a successful call *)

\* the slide entries of the configuration the call c was given
ConfiguredEntries(c) == DictGet(frame[c].config, slides_key).v

\* the template page an accepted entry names
PageNamed(entry) == IntOf(DictGet(entry, src_page_key))

\* C11: once process has returned, the saved output holds exactly one slide
\* per configuration entry, the i-th slide being the copy of the template
\* slide the i-th entry's src_page names; an empty list gives no slide.
C11_OneSlidePerEntryInOrder ==
    \A c \in DOMAIN frame :
        frame[c].result = Completed =>
            /\ output_file[c].written
            /\ output_file[c].prs = frame[c].output_prs
            /\ Len(output_file[c].prs) = Len(ConfiguredEntries(c))
            /\ \A i \in 1..Len(ConfiguredEntries(c)) :
                   output_file[c].prs[i].copied_from = PageNamed(ConfiguredEntries(c)[i])

\* page 2 of the three-slide template has been copied twice, page 1 never
C11_Witness ==
    /\ frame[1].result = Completed
    /\ Len(template_prs) = 3
    /\ Len(ConfiguredEntries(1)) = 2
    /\ \A i \in 1..2 : PageNamed(ConfiguredEntries(1)[i]) = 2
    /\ Len(output_file[1].prs) = 2
    /\ \A i \in 1..2 : output_file[1].prs[i].copied_from = 2

----------------------------------------------------------------------------
(* Malformed configurations *)

\* a positive integer, as a configuration file writes one
PositiveInteger(v) == v.tag = "int" /\ v.v >= 1

\* the entry is one of the malformed entries the claim lists
MalformedEntry(entry, template_slides) ==
    \/ entry.tag # "dict"
    \/ ~DictHas(entry, src_page_key)
    \/ ~PositiveInteger(DictGet(entry, src_page_key))
    \/ DictGet(entry, src_page_key).v > template_slides

MalformedTop(config) ==
    \/ config.tag # "dict"
    \/ ~DictHas(config, slides_key)
    \/ DictGet(config, slides_key).tag # "list"

\* the 0-based indexes of the malformed entries of a list of entries
MalformedIndexes(entries, template_slides) ==
    { k \in 0..(Len(entries) - 1) : MalformedEntry(entries[k + 1], template_slides) }

\* the call has ended, its configuration was an object or was read from its
\* file, and the template could be opened as the output document
Settled(c) ==
    /\ frame[c].pc = "done"
    /\ frame[c].config.tag \notin {"str", "Path"}
    /\ frame[c].result.exc.type # "PackageNotFoundError"

\* C12: a call whose configuration is malformed ends with a TemplateError; when
\* the malformed part is a slide entry the error names the index of the first
\* such entry, and for a src_page above the slide count it also carries the
\* requested page and the number of slides of the template.
C12_MalformedConfigRejected ==
    \A c \in DOMAIN frame :
        Settled(c) =>
            /\ MalformedTop(frame[c].config) =>
                   /\ frame[c].result.status = "raised"
                   /\ frame[c].result.exc.type = "TemplateError"
            /\ (~MalformedTop(frame[c].config)
                  /\ MalformedIndexes(ConfiguredEntries(c), Len(template_prs)) # {}) =>
                   LET bad == MalformedIndexes(ConfiguredEntries(c), Len(template_prs))
                       k == CHOOSE i \in bad : \A j \in bad : i <= j
                       exc == frame[c].result.exc
                   IN  /\ frame[c].result.status = "raised"
                       /\ exc.type = "TemplateError"
                       /\ exc.index = k
                       /\ exc.kind = "SrcPageExceeds" =>
                              /\ exc.src_page = DictGet(ConfiguredEntries(c)[k + 1], src_page_key)
                              /\ exc.count = Len(template_prs)

----------------------------------------------------------------------------
(* Fatal errors and the output file *)

\* C13: a call that has raised has written no output file, and an output
\* file is written only by a call that returns, after every configured entry
\* has been validated, copied and processed.
C13_NoPartialOutput ==
    \A c \in DOMAIN frame :
        /\ frame[c].result.status = "raised" => ~output_file[c].written
        /\ output_file[c].written =>
               /\ frame[c].result = Completed
               /\ frame[c].idx = Len(ConfiguredEntries(c))
               /\ Len(output_file[c].prs) = Len(ConfiguredEntries(c))

\* the second entry was rejected after the first one had been copied, and
\* nothing is on disk
C13_Witness ==
    /\ frame[1].result.status = "raised"
    /\ frame[1].result.exc.type = "TemplateError"
    /\ frame[1].result.exc.index = 1
    /\ Len(frame[1].output_prs) = 1
    /\ ~output_file[1].written

\* the TemplateErrors raised for a malformed configuration
ConfigErrorKinds ==
    {"ConfigMustContainSlides", "SlidesMustBeList", "SlideConfigNotDict",
     "MissingSrcPage", "InvalidSrcPage", "SrcPageExceeds"}

\* C14: when a call raises a configuration error, for a malformed entry at
\* any index, no slide has been copied into its in-memory output document.
C14_ConfigErrorBeforeAnyCopy ==
    \A c \in DOMAIN frame :
        (frame[c].result.status = "raised"
            /\ frame[c].result.exc.kind \in ConfigErrorKinds)
        => frame[c].output_prs = <<>>

----------------------------------------------------------------------------
(* Paragraphs of processed slides *)

\* the positions, among the children of the paragraph, of its runs and of
\* its runs with a font name
RunPositions(paragraph) == { k \in 1..Len(paragraph) : paragraph[k].kind = "r" }
NamedRunPositions(paragraph) ==
    { k \in RunPositions(paragraph) : paragraph[k].font_name # None }

\* the shapes the slide i of the output of call c was copied from
OriginalShapes(c, i) ==
    CopiedShapes(template_prs[PageNamed(ConfiguredEntries(c)[i])].shapes)

\* the <<call, slide, shape, paragraph>> positions of the paragraphs of the
\* slides whose entry has been processed to its end
ProcessedParagraphs ==
    UNION { UNION { UNION { { <<c, i, n, j>> :
              j \in 1..Len(OriginalShapes(c, i)[n].paragraphs) } :
            n \in 1..Len(OriginalShapes(c, i)) } :
          i \in 1..frame[c].idx } :
        c \in { d \in DOMAIN frame : frame[d].slides_config # <<>> } }

OriginalParagraph(pos) == OriginalShapes(pos[1], pos[2])[pos[3]].paragraphs[pos[4]]
OutputParagraph(pos) == frame[pos[1]].output_prs[pos[2]].shapes[pos[3]].paragraphs[pos[4]]
TreeFor(pos) == replace_texts(ConfiguredEntries(pos[1])[pos[2]])

\* some placeholder of the text does not resolve in the tree
SomeUnresolved(t, d) ==
    \E k \in 1..Len(Spans(t, 1)) : ~Resolves(t, Spans(t, 1)[k], d)

\* the text has a placeholder, and every placeholder resolves in the tree
AllResolve(t, d) == Spans(t, 1) # <<>> /\ ~SomeUnresolved(t, d)

\* the same runs, text by text, a font name differing only where it was unset
SameRunsFontsFilled(now, orig) ==
    /\ Len(now) = Len(orig)
    /\ \A k \in 1..Len(orig) :
           /\ now[k].text = orig[k].text
           /\ orig[k].font_name # None => now[k].font_name = orig[k].font_name

\* no call has failed with the error of a substitution
NoSubstitutionFailure ==
    \A c \in DOMAIN frame :
        frame[c].result.status = "raised" =>
            frame[c].result.exc.type \in {"TemplateError", "PackageNotFoundError"}

\* C15 as stated: a processed paragraph with an unresolved placeholder, or
\* with no placeholder, is exactly the copied paragraph, and one whose
\* placeholders all resolve holds the substituted text.
C15_FailureConfinedExactly ==
    /\ NoSubstitutionFailure
    /\ \A pos \in ProcessedParagraphs :
           LET orig == OriginalParagraph(pos)
               t == ParagraphText(orig)
           IN  /\ (Spans(t, 1) = <<>> \/ SomeUnresolved(t, TreeFor(pos)))
                      => OutputParagraph(pos) = orig
               /\ AllResolve(t, TreeFor(pos))
                      => ParagraphText(OutputParagraph(pos))
                           = CleanControl(Substituted(t, 1, Spans(t, 1), 1, TreeFor(pos)))

\* C15: no call fails because of a substitution; a processed paragraph with an
\* unresolved placeholder, or with no placeholder, or of an entry whose
\* replace_texts is empty, keeps its runs, their texts and their defined font
\* names (an unset font name may have been filled in); a paragraph whose
\* placeholders all resolve in a non-empty replace_texts holds the
\* substituted text.
C15_FailureConfined ==
    /\ NoSubstitutionFailure
    /\ \A pos \in ProcessedParagraphs :
           LET orig == OriginalParagraph(pos)
               t == ParagraphText(orig)
           IN  /\ (Spans(t, 1) = <<>> \/ SomeUnresolved(t, TreeFor(pos))
                     \/ ~Truthy(TreeFor(pos)))
                      => SameRunsFontsFilled(OutputParagraph(pos), orig)
               /\ (AllResolve(t, TreeFor(pos)) /\ Truthy(TreeFor(pos)))
                      => ParagraphText(OutputParagraph(pos))
                           = CleanControl(Substituted(t, 1, Spans(t, 1), 1, TreeFor(pos)))

\* page 2 has been processed with Tree1 and the call has returned: {{m}} is
\* still there, its sibling {{n}} has become None
C15_Witness ==
    /\ frame[1].result = Completed
    /\ \E i \in 1..Len(frame[1].output_prs) :
         /\ frame[1].output_prs[i].copied_from = 2
         /\ TreeFor(<<1, i, 1, 1>>) = Tree1
         /\ ParagraphText(frame[1].output_prs[i].shapes[1].paragraphs[1])
              = <<"{", "{", "m", "}", "}">>
         /\ ParagraphText(frame[1].output_prs[i].shapes[1].paragraphs[2])
              = <<"N", "o", "n", "e">>

----------------------------------------------------------------------------
(* Font names of processed slides *)

\* the runs of the paragraph that have a font name and a text that is not
\* empty (blank FALSE), or a text with a character that is not whitespace
\* (blank TRUE excludes the whitespace-only runs)
FontGivers(paragraph, excludeBlank) ==
    { k \in 1..Len(paragraph) :
        /\ paragraph[k].font_name # None
        /\ IF excludeBlank THEN Strip(paragraph[k].text) # <<>>
           ELSE paragraph[k].text # <<>> }

FirstOf(S) == CHOOSE k \in S : \A m \in S : k <= m

\* the paragraph has the runs it was copied with, text by text
NotRewritten(now, orig) ==
    Len(now) = Len(orig) /\ \A k \in 1..Len(orig) : now[k].text = orig[k].text

----------------------------------------------------------------------------
(* Errors reaching the caller *)

\* the message of the TemplateError carries what its kind is about: the
\* path of a missing file, the index of a slide entry
NamesItsSubject(exc) ==
    /\ exc.kind \in {"TemplateFileNotFound", "ConfigFileNotFound"} => exc.detail # <<>>
    /\ exc.kind \in {"SlideConfigNotDict", "MissingSrcPage", "InvalidSrcPage", "SrcPageExceeds"}
           => exc.index >= 0

\* C17: whatever makes TemplateEngine(...) or process fail, the caller gets a
\* TemplateError whose message names the file or the index concerned.
C17_EveryFailureIsTemplateError ==
    /\ init_result.status = "raised" =>
           init_result.exc.type = "TemplateError" /\ NamesItsSubject(init_result.exc)
    /\ \A c \in DOMAIN frame :
           frame[c].result.status = "raised" =>
               /\ frame[c].result.exc.type = "TemplateError"
               /\ NamesItsSubject(frame[c].result.exc)

----------------------------------------------------------------------------
(* The command line *)

MissingFileLines == {"Error: Template file not found: ", "Error: Config file not found: "}

\* C18: no exception leaves main; main returns 0 exactly when the engine was
\* built and process returned with the output saved, and otherwise returns 1
\* with one line on stderr: "Error: ..." for a missing file or a
\* TemplateError, "Unexpected error: ..." for another exception; when a file
\* is reported missing the engine was never constructed.
C18_MainReturnsZeroOrOne ==
    /\ main_pc # "escaped"
    /\ main_pc = "done" =>
         /\ returncode \in {0, 1}
         /\ returncode = 0 <=>
                (init_result = Completed /\ frame[1].result = Completed
                    /\ output_file[1].written)
         /\ returncode = 0 => stderr = <<>>
         /\ returncode = 1 =>
                /\ Len(stderr) = 1
                /\ \/ /\ stderr[1].prefix \in MissingFileLines
                      /\ init_result = NotCalled
                      /\ template_prs = <<>>
                      /\ frame[1].pc = "load_config"
                   \/ /\ stderr[1].prefix = "Error: "
                      /\ stderr[1].exc.type = "TemplateError"
                      /\ stderr[1].exc \in {init_result.exc, frame[1].result.exc}
                   \/ /\ stderr[1].prefix = "Unexpected error: "
                      /\ stderr[1].exc.type \notin {"", "TemplateError"}
                      /\ stderr[1].exc = frame[1].result.exc
    /\ main_pc \in {"start", "try"} => returncode = -1 /\ stderr = <<>>

\* main has returned 1 after process let the load error of python-pptx through
C18_Witness ==
    /\ main_pc = "done"
    /\ returncode = 1
    /\ init_result = Completed
    /\ frame[1].result = Failed(PackageNotFoundError)
    /\ stderr = << ErrorLine("Unexpected error: ", PackageNotFoundError) >>

----------------------------------------------------------------------------
(* Calls on one engine *)

\* the slides a call running alone can make of an accepted entry: the copy,
\* normalized, substituted when replace_texts is non-empty, normalized again
SlidesOfEntry(entry, template) ==
    LET copied == copy_slide(template, PageNamed(entry) - 1, << >>)[1] IN
    UNION { LET first == normalize_fonts_in_slide(copied, d1)
                replaced == IF Truthy(replace_texts(entry))
                            THEN replace_placeholders_in_slide(first, replace_texts(entry))
                            ELSE first
            IN  { normalize_fonts_in_slide(replaced, d2) : d2 \in DefaultFonts(replaced) } :
            d1 \in DefaultFonts(copied) }

\* what each call holds and has saved is what it would if it ran alone
OwnResult ==
    \A c \in DOMAIN frame :
        /\ \A i \in 1..frame[c].idx :
               frame[c].output_prs[i] \in SlidesOfEntry(frame[c].slides_config[i], template_file)
        /\ Len(frame[c].output_prs) \in {frame[c].idx, frame[c].idx + 1}
        /\ output_file[c].written =>
               /\ output_file[c].prs = frame[c].output_prs
               /\ Len(output_file[c].prs) = Len(frame[c].slides_config)

\* C19: a statement of one call leaves the template presentation as loaded
\* and changes the locals, the output document and the file of that call
\* only, so that every call, interleaved with the others or not, holds and
\* saves the slides it would produce alone.
C19_CallsShareNoOutput ==
    /\ []OwnResult
    /\ [][ /\ template_prs' = template_prs
           /\ \E c \in DOMAIN frame :
                  \A d \in DOMAIN frame \ {c} :
                      frame'[d] = frame[d] /\ output_file'[d] = output_file[d] ]_vars

\* call 1 has its two slides and is about to save while call 2, with another
\* configuration, is in the middle of its first slide
C19_Witness ==
    /\ Len(frame) >= 2
    /\ frame[1].pc = "save"
    /\ Len(frame[1].output_prs) = 2
    /\ frame[2].pc = "replace"
    /\ Len(frame[2].output_prs) = 1
    /\ frame[1].config # frame[2].config
    /\ template_prs = template_file

-----------------------------------------------------------------------------
(* The steps of one entry *)

\* one statement of call c, as far as the steps of an entry go: each step is
\* followed by the next one of the same entry, the steps touch the slide of
\* that entry only, and a copy starts when every earlier entry is finished;
\* `always` has the substitution follow the first pass for every entry
EntrySteps(c, always) ==
    LET f == frame[c]
        g == frame'[c]
        entry == f.slides_config[f.idx + 1]
    IN  g # f =>
          /\ f.pc = "copy" =>
                 /\ g.pc = "normalize" /\ g.idx = f.idx
                 /\ Len(g.output_prs) = f.idx + 1
          /\ f.pc = "normalize" =>
                 /\ g.pc = (IF always \/ Truthy(replace_texts(entry))
                            THEN "replace" ELSE "normalize_again")
                 /\ g.idx = f.idx
          /\ f.pc = "replace" => g.pc = "normalize_again" /\ g.idx = f.idx
          /\ f.pc = "normalize_again" => g.pc = "for" /\ g.idx = f.idx + 1
          /\ g.pc = "copy" => f.pc = "for" /\ Len(f.output_prs) = f.idx
          /\ g.idx # f.idx => f.pc \in {"new_output", "normalize_again"}
          /\ f.pc \in {"copy", "normalize", "replace", "normalize_again"} =>
                 /\ Len(g.output_prs) = f.idx + 1
                 /\ \A i \in 1..f.idx : g.output_prs[i] = f.output_prs[i]

\* C20 as written: for every entry the steps are the copy, the first font
\* pass, the substitution and the second font pass, in this order, and the
\* copy for an entry starts when the steps of the entries before it are done.
C20_FourStepsInOrder == [][\A c \in DOMAIN frame : EntrySteps(c, TRUE)]_vars

\* C20: for every entry the steps are the copy, the first font pass, the
\* substitution exactly when replace_texts is non-empty, and the second font
\* pass, in this order; the copy for an entry starts when the steps of the
\* entries before it are done, and the steps of an entry leave the slides of
\* the earlier entries as they are.
C20_StepsInOrder == [][\A c \in DOMAIN frame : EntrySteps(c, FALSE)]_vars

\* the second entry, without replace_texts, is past its first font pass and
\* goes to the second one; the first entry was substituted
C20_Witness ==
    /\ frame[1].pc = "normalize_again"
    /\ frame[1].idx = 1
    /\ Len(frame[1].output_prs) = 2
    /\ Truthy(replace_texts(frame[1].slides_config[1]))
    /\ ~Truthy(replace_texts(frame[1].slides_config[2]))

----------------------------------------------------------------------------
(* The substitution pass on one slide *)

\* the step is a call of the method on the slide
Called(method) ==
    /\ Len(slide_calls') = Len(slide_calls) + 1
    /\ slide_calls'[Len(slide_calls')].method = method

\* the <<shape, paragraph>> positions of the paragraphs of a slide
PositionsOf(s) ==
    UNION { { <<n, j>> : j \in 1..Len(s.shapes[n].paragraphs) } :
            n \in { m \in 1..Len(s.shapes) : s.shapes[m].text_frame } }

ParagraphAt(s, pos) == s.shapes[pos[1]].paragraphs[pos[2]]

\* the text with every placeholder replaced by the string form of its value
SubstitutedText(t, d) == Substituted(t, 1, Spans(t, 1), 1, d)

\* C21: a call of the substitution pass turns every paragraph whose text (the
\* texts of its runs joined) has placeholders that all resolve, and differs
\* from its substituted text, into a paragraph of exactly one run whose text
\* is the substituted text of the whole paragraph, control characters cleaned.
C21_OneRunOfSubstitutedText ==
    [][ Called("_replace_placeholders_in_slide") =>
          \A pos \in PositionsOf(cur_slide) :
              LET t == ParagraphText(ParagraphAt(cur_slide, pos))
                  d == slide_calls'[Len(slide_calls')].replacements
                  after == ParagraphAt(cur_slide', pos)
              IN  (AllResolve(t, d) /\ SubstitutedText(t, d) # t) =>
                      /\ Len(after) = 1
                      /\ after[1].kind = "r"
                      /\ after[1].text = CleanControl(SubstitutedText(t, d)) ]_vars

\* {{b}} was split over two runs: the paragraph now is the one run "x yz"
C21_Witness ==
    /\ Len(slide_calls) = 1
    /\ slide_calls[1] = SlideCall("_replace_placeholders_in_slide", None, TreeV)
    /\ ParagraphAt(cur_slide, <<2, 1>>) = << Run(<<"x", " ", "y", "z">>, "Arial") >>

\* the paragraph is rewritten by a call of the substitution pass with tree d
IsRewritten(paragraph, d) ==
    /\ AllResolve(ParagraphText(paragraph), d)
    /\ SubstitutedText(ParagraphText(paragraph), d) # ParagraphText(paragraph)

\* the formatting a rewritten paragraph is to have: that of the first run with
\* a font name, else that of the first run (a colour that is not RGB counts as
\* no colour), else Arial and nothing more
ExpectedFormatting(paragraph) ==
    LET from(run) == [font_name |-> run.font_name, size |-> run.size, bold |-> run.bold,
                      italic |-> run.italic, underline |-> run.underline,
                      color |-> IF run.color.type = "RGB" THEN run.color ELSE NoColor]
    IN  IF NamedRunPositions(paragraph) # {}
        THEN from(paragraph[FirstOf(NamedRunPositions(paragraph))])
        ELSE IF RunPositions(paragraph) # {}
        THEN from(paragraph[FirstOf(RunPositions(paragraph))])
        ELSE [font_name |-> "Arial", size |-> None, bold |-> None, italic |-> None,
              underline |-> None, color |-> NoColor]

\* C22: the one run of a paragraph the substitution pass has rewritten has,
\* attribute by attribute (font name, size, bold, italic, underline, RGB
\* colour), what one reference defined, and nothing where it defined nothing:
\* the first run of the paragraph with a font name, else its first run, else
\* the defaults (Arial, all else unset).
C22_FormattingOfOneReference ==
    [][ Called("_replace_placeholders_in_slide") =>
          \A pos \in PositionsOf(cur_slide) :
              LET before == ParagraphAt(cur_slide, pos)
                  after == ParagraphAt(cur_slide', pos)
                  expected == ExpectedFormatting(before)
              IN  IsRewritten(before, slide_calls'[Len(slide_calls')].replacements) =>
                      /\ after[1].font_name = expected.font_name
                      /\ after[1].size = expected.size
                      /\ after[1].bold = expected.bold
                      /\ after[1].italic = expected.italic
                      /\ after[1].underline = expected.underline
                      /\ after[1].color = expected.color ]_vars

\* two kinds of reference in one state: a second run that is the first with
\* a font name and has every attribute, and no run at all (a field)
C22_Witness ==
    /\ Len(slide_calls) = 1
    /\ slide_calls[1] = SlideCall("_replace_placeholders_in_slide", None, TreeV)
    /\ \E pos \in PositionsOf(cur_slide) :
         ParagraphAt(cur_slide, pos)
           = << FormattedRun(<<"y", "z", "x">>, "Meiryo", "12pt", "True", "False", None,
                             RGBColor("FF0000")) >>
    /\ \E pos \in PositionsOf(cur_slide) :
         ParagraphAt(cur_slide, pos) = << Run(<<"y", "z">>, "Arial") >>

----------------------------------------------------------------------------
(* The font normalization pass on one slide *)

\* the <<shape, paragraph, child>> positions of the runs of a slide that
\* have the font name f and a text that is not blank
RunsNamed(s, f) ==
    UNION { { <<pos[1], pos[2], k>> :
                k \in { m \in RunPositions(ParagraphAt(s, pos)) :
                          /\ ParagraphAt(s, pos)[m].font_name = f
                          /\ Strip(ParagraphAt(s, pos)[m].text) # << >> } } :
            pos \in PositionsOf(s) }

\* the font names that no other font name of the slide outnumbers (counting
\* the runs whose text is not blank), or the fallback when the slide has none
MostCommonFonts(s) ==
    LET defined == { f \in { run.font_name : run \in RunsOf(s) } :
                       f # None /\ RunsNamed(s, f) # {} }
    IN  IF defined = {} THEN {"Meiryo UI"}
        ELSE { f \in defined :
                 \A g \in defined : Cardinality(RunsNamed(s, g)) <= Cardinality(RunsNamed(s, f)) }

\* C23: a call of the normalization pass gives the runs without font name of
\* a paragraph (one with text) that has no run with a font name and a
\* non-empty text the most common font name of the slide, or the fallback
\* when the slide defines none.
C23_MostCommonFontOfSlide ==
    [][ Called("_normalize_fonts_in_slide") =>
          \A pos \in PositionsOf(cur_slide) :
              LET before == ParagraphAt(cur_slide, pos)
                  after == ParagraphAt(cur_slide', pos)
              IN  (Strip(ParagraphText(before)) # << >> /\ FontGivers(before, FALSE) = {}) =>
                      \A k \in RunPositions(before) :
                          before[k].font_name = None =>
                              after[k].font_name \in MostCommonFonts(cur_slide) ]_vars

----------------------------------------------------------------------------
(* Control characters of a substituted text *)

\* the C0 control characters (0x00 to 0x1F) the model writes
C0Controls == {"NUL", "BEL", "\t", "\n", VT, "\f", "\r", "ESC"}

\* a text with every vertical tab turned into a newline and every other C0
\* control character but newline and carriage return left out
WithoutControls(t) ==
    SelectSeq([ i \in 1..Len(t) |-> IF t[i] = VT THEN "\n" ELSE t[i] ],
              LAMBDA c : c \notin C0Controls \ {"\n", "\r"})

\* C24: the text written to a paragraph the substitution pass has rewritten
\* is the substituted text with every vertical tab turned into a newline, no
\* other C0 control character left but newline and carriage return, and all
\* other characters kept in order.
C24_ControlCharactersCleaned ==
    [][ Called("_replace_placeholders_in_slide") =>
          \A pos \in PositionsOf(cur_slide) :
              LET before == ParagraphAt(cur_slide, pos)
                  d == slide_calls'[Len(slide_calls')].replacements
              IN  IsRewritten(before, d) =>
                      ParagraphAt(cur_slide', pos)[1].text
                        = WithoutControls(SubstitutedText(ParagraphText(before), d)) ]_vars

----------------------------------------------------------------------------
(* Shapes of a copied slide *)

\* the shapes that can be copied, in the order they have
RECURSIVE Surviving(_)
Surviving(shapes) ==
    IF shapes = << >> THEN << >>
    ELSE IF Head(shapes).copies THEN << Head(shapes) >> \o Surviving(Tail(shapes))
    ELSE Surviving(Tail(shapes))

\* shape b is a copy of shape a: the same but for the image relationship
CopyOf(b, a) == [b EXCEPT !.embed = a.embed] = a

\* C25: the copy of a slide never fails because of a shape or an image: the
\* step ends with a new slide at the end of the output that holds a copy of
\* every source shape whose copy succeeds, in source order, whether or not
\* the copy of another shape or of an image has failed.
C25_CopyIsBestEffort ==
    [][ \A c \in DOMAIN frame :
          (frame[c].pc = "copy" /\ frame'[c] # frame[c]) =>
              LET page == PageNamed(frame[c].slides_config[frame[c].idx + 1])
                  source == Surviving(template_prs[page].shapes)
                  new == frame'[c].output_prs[Len(frame'[c].output_prs)].shapes
              IN  /\ frame'[c].pc = "normalize"
                  /\ Len(frame'[c].output_prs) = Len(frame[c].output_prs) + 1
                  /\ Len(new) = Len(source)
                  /\ \A k \in 1..Len(source) : CopyOf(new[k], source[k]) ]_vars

\* page 3, with a shape that cannot be copied and an image that cannot be
\* read, has been copied: the new slide has the three other shapes
C25_Witness ==
    /\ frame[1].pc = "normalize"
    /\ LET new == frame[1].output_prs[Len(frame[1].output_prs)] IN
       /\ new.copied_from = 3
       /\ \E k \in 1..Len(template_prs[3].shapes) : ~template_prs[3].shapes[k].copies
       /\ Len(new.shapes) = 3
       /\ new.shapes[1] = Picture(TRUE)
       /\ new.shapes[3] = UnreadablePicture

----------------------------------------------------------------------------
(* Tokens of a key path *)

\* the tokens of a key path: the pieces between the dots, each without the
\* whitespace around it, the empty ones left out
Trimmed(token) ==
    LET inked == { i \in 1..Len(token) : token[i] \notin Whitespace }
    IN  IF inked = {} THEN << >>
        ELSE SubSeq(token, CHOOSE i \in inked : \A m \in inked : i <= m,
                           CHOOSE i \in inked : \A m \in inked : i >= m)

Tokens(path) ==
    SelectSeq([ i \in 1..Len(Split(path, ".")) |-> Trimmed(Split(path, ".")[i]) ],
              LAMBDA token : token # << >>)

\* the tokens with one dot between them: the key path without any whitespace
\* around a token and without a leading, trailing or repeated dot
RECURSIVE Joined(_)
Joined(tokens) ==
    IF tokens = << >> THEN << >>
    ELSE IF Len(tokens) = 1 THEN tokens[1]
    ELSE tokens[1] \o <<".">> \o Joined(Tail(tokens))

\* C26: the outcome of get_nested_value is that of the key path stripped of
\* the whitespace around its tokens and of its leading, trailing and repeated
\* dots, so two key paths with the same tokens have the same outcome; a key
\* path without any token returns the root tree.
C26_OnlyTokensMatter ==
    pc = "done" =>
        /\ SameOutcome(result, get_nested_value(data, Joined(Tokens(key_path))))
        /\ Tokens(key_path) = << >> => result = Returned(data)

\* " a..b" on Tree1 has returned what a.b returns, and " ." has returned the tree
C26_Witness ==
    /\ pc = "done"
    /\ result.status = "returned"
    /\ \/ /\ key_path = <<" ", "b", ".">>
          /\ result.val = VStr(<<"y", "z">>)
       \/ /\ key_path = <<" ", ".">>
          /\ result.val = data

----------------------------------------------------------------------------
(* Placeholder spans *)

\* the <<first, last>> positions of the matches PLACEHOLDER_PATTERN.sub finds
\* in t from position i on
RECURSIVE Matches(_, _)
Matches(t, i) ==
    IF NextMatch(t, i) = 0 THEN << >>
    ELSE LET j == NextMatch(t, i)
             last == j + 3 + NonBraceRun(t, j + 2)
         IN  << <<j, last>> >> \o Matches(t, last + 1)

\* t[i..j] opens with {{, closes with }}, and has a character at least and
\* no } in between
Placeholder(t, i, j) ==
    /\ j >= i + 4
    /\ SubSeq(t, i, i + 1) = <<"{", "{">>
    /\ SubSeq(t, j - 1, j) = <<"}", "}">>
    /\ \A k \in (i + 2)..(j - 2) : t[k] # "}"

\* C27: the spans replace_text matches are placeholders ({{, one character at
\* least and no } in between, }}), each the leftmost one behind the span
\* before it, so that they neither overlap nor nest; a text without such a
\* span, like {{}} or {{ a } b }}, is returned as it is, and the spans are
\* what is replaced.
C27_SpansArePlaceholders ==
    rpc = "done" =>
        LET found == Matches(text, 1) IN
        /\ \A k \in 1..Len(found) :
               /\ Placeholder(text, found[k][1], found[k][2])
               /\ \A i \in (IF k = 1 THEN 1 ELSE found[k - 1][2] + 1)..(found[k][1] - 1),
                     j \in 1..Len(text) : ~Placeholder(text, i, j)
               /\ k > 1 => found[k - 1][2] < found[k][1]
        /\ \A i \in (IF found = << >> THEN 1 ELSE found[Len(found)][2] + 1)..Len(text),
              j \in 1..Len(text) : ~Placeholder(text, i, j)
        /\ (\A i, j \in 1..Len(text) : ~Placeholder(text, i, j)) =>
               rresult = TextReturned(text)
        /\ (\A k \in 1..Len(found) : Resolves(text, found[k], data)) =>
               rresult = TextReturned(Substituted(text, 1, found, 1, data))

\* {{}}{{b}} on Tree1: the empty braces are kept, {{b}} is replaced
C27_Witness ==
    /\ rpc = "done"
    /\ calls = 1
    /\ text = <<"{", "{", "}", "}", "{", "{", "b", "}", "}">>
    /\ rresult = TextReturned(<<"{", "{", "}", "}", "y", "z">>)

----------------------------------------------------------------------------
(* One pass over the text *)

\* how much longer the text gets when span number k and every later span of
\* sps is replaced once by the string form of its value
RECURSIVE Growth(_, _, _, _)
Growth(t, sps, k, d) ==
    IF k > Len(sps) THEN 0
    ELSE Len(Str(get_nested_value(d, SpanPath(t, sps[k])).val))
         - (sps[k][2] - sps[k][1] + 1)
         + Growth(t, sps, k + 1, d)

\* C28: replace_text is single-pass.  When every placeholder of the input
\* text resolves, the call returns (a value that holds placeholder syntax
\* raises nothing), each span of the input is replaced exactly once, and the
\* string form of each value stands in the output verbatim at the place of
\* its span, braces included: nothing inside a value is looked up.
C28_SinglePass ==
    (rpc = "done" /\ calls = 1) =>
        LET sps == Spans(text, 1) IN
        (\A k \in 1..Len(sps) : Resolves(text, sps[k], data)) =>
            /\ rresult.status = "returned"
            /\ Len(rresult.val) = Len(text) + Growth(text, sps, 1, data)
            /\ \A k \in 1..Len(sps) :
                   LET v == Str(get_nested_value(data, SpanPath(text, sps[k])).val)
                       o == Len(SubstitutedText(SubSeq(text, 1, sps[k][1] - 1), data))
                   IN  SubSeq(rresult.val, o + 1, o + Len(v)) = v

\* "{{u}}{{ s}}" on Tree2 has become "{{zz}}{{}}": the value of u is a
\* placeholder no key of the tree resolves, and the call has returned it
C28_Witness ==
    /\ rpc = "done" /\ calls = 1
    /\ data = Tree2
    /\ text = <<"{", "{", "u", "}", "}", "{", "{", " ", "s", "}", "}">>
    /\ rresult = TextReturned(<<"{", "{", "z", "z", "}", "}", "{", "{", "}", "}">>)
    /\ HasSpanFrom(rresult.val, 1)
    /\ replace_text(rresult.val, data).status = "raised"

----------------------------------------------------------------------------
(* What the font normalization pass leaves alone *)

\* the run with its font name put aside
WithoutFontName(run) == [run EXCEPT !.font_name = None]

\* C29: a call of the font normalization pass keeps the shapes, the
\* paragraphs and the children of every paragraph in number and order; what
\* has no text_frame, what is not a run, and every paragraph whose text is
\* blank stay as they are; a run keeps its text and every attribute but the
\* font name, and keeps the font name too when it had one.
C29_OnlyUnsetFontNamesChange ==
    [][ Called("_normalize_fonts_in_slide") =>
          /\ cur_slide'.copied_from = cur_slide.copied_from
          /\ Len(cur_slide'.shapes) = Len(cur_slide.shapes)
          /\ \A n \in 1..Len(cur_slide.shapes) :
                 /\ [cur_slide'.shapes[n] EXCEPT !.paragraphs = << >>]
                        = [cur_slide.shapes[n] EXCEPT !.paragraphs = << >>]
                 /\ Len(cur_slide'.shapes[n].paragraphs) = Len(cur_slide.shapes[n].paragraphs)
                 /\ ~cur_slide.shapes[n].text_frame => cur_slide'.shapes[n] = cur_slide.shapes[n]
          /\ \A pos \in PositionsOf(cur_slide) :
                 LET before == ParagraphAt(cur_slide, pos)
                     after == ParagraphAt(cur_slide', pos)
                 IN  /\ Len(after) = Len(before)
                     /\ Strip(ParagraphText(before)) = << >> => after = before
                     /\ \A k \in 1..Len(before) :
                            /\ before[k].kind # "r" => after[k] = before[k]
                            /\ before[k].kind = "r" =>
                                   /\ after[k].kind = "r"
                                   /\ after[k].text = before[k].text
                                   /\ WithoutFontName(after[k]) = WithoutFontName(before[k])
                                   /\ before[k].font_name # None => after[k] = before[k] ]_vars

\* one call was made on a slide of a blank paragraph (a blank run with a font
\* name, a line break, an empty run without one) and of "{{m}}" without a
\* font name: the first is as it was, the run of the second has the default
C29_Witness ==
    /\ Len(slide_calls) = 1
    /\ slide_calls[1].method = "_normalize_fonts_in_slide"
    /\ cur_slide.shapes[2].paragraphs =
           << << Run(<<" ">>, "Calibri"), LineBreak, Run(<< >>, None) >>,
              << Run(<<"{", "{", "m", "}", "}">>, "Meiryo UI") >> >>

----------------------------------------------------------------------------
(* The second font normalization pass of process *)

\* some run of a paragraph of s whose text is not blank has no font name
UnsetInNonBlank(s) ==
    \E pos \in PositionsOf(s) :
        LET paragraph == ParagraphAt(s, pos) IN
        /\ Strip(ParagraphText(paragraph)) # << >>
        /\ \E k \in 1..Len(paragraph) :
               paragraph[k].kind = "r" /\ paragraph[k].font_name = None

\* C30: within process, when the second font normalization pass is about to
\* run on the new slide (after the first pass, and after the substitution
\* pass when there was one) no run of a non-blank paragraph of that slide has
\* an unset font name, and the second pass leaves the output presentation of
\* the call exactly as it was: the output is that of a pipeline without it.
C30_SecondPassOfProcessIdle ==
    /\ [](\A c \in DOMAIN frame :
             frame[c].pc = "normalize_again" => ~UnsetInNonBlank(new_slide(c)))
    /\ [][ \A c \in DOMAIN frame :
             frame[c].pc = "normalize_again" =>
                 frame'[c].output_prs = frame[c].output_prs ]_vars

\* page 3 was copied and substituted with Tree1: the paragraph that was a
\* field only is the one run "yz" in Arial, the second pass has run and the
\* loop is back at its head
C30_Witness ==
    \E c \in DOMAIN frame :
        /\ frame[c].pc = "for"
        /\ frame[c].idx = 1
        /\ Len(frame[c].output_prs) = 1
        /\ replace_texts(frame[c].slides_config[1]) = Tree1
        /\ \E n \in 1..Len(frame[c].output_prs[1].shapes) :
               /\ frame[c].output_prs[1].shapes[n].text_frame
               /\ Len(frame[c].output_prs[1].shapes[n].paragraphs) = 3
               /\ frame[c].output_prs[1].shapes[n].paragraphs[3]
                      = << Run(<<"y", "z">>, "Arial") >>

====
